---- MODULE Spec2Model ----
(***************************************************************************)
(* Mission supervisor (server.js), extraction worker (src/scraper.ts),     *)
(* persistence gateway (src/db.ts) and recurring-job scheduler             *)
(* (src/scheduler.ts, kept in src/unnamed/part_009) of the ad-library      *)
(* scraping backend.                                                       *)
(*                                                                         *)
(* Spec       on-demand Facebook and Google missions: the HTTP handlers,   *)
(*            the worker process, its output stream and the store.         *)
(* SpecSched  the scheduler: cron ticks, executions, retry and the         *)
(*            Scheduler records.                                           *)
(***************************************************************************)
EXTENDS Integers, Sequences, FiniteSets, TLC

\* ---------------------------------------------------------------- bounds
MaxAds == 2             \* the maxAdsPerRequest a mission is started with
MaxSummary == 1         \* largest "saved" value a summary line carries
MaxCards == 2           \* cards handed to saveAd in one behaviour, all workers together
MaxTicks == 1           \* cron ticks in one behaviour
MaxElapsed == 1
MaxStream == 5         \* clock advances (of one minute) in one behaviour

MissionIds == {1, 2}
OneMission == {1}
SchedIds == {1, 2}
OneSched == {1}
Keywords == {"shoes", "bags"}
OneKeyword == {"shoes"}
SchedOwners == {"u1"}           \* users who create schedulers; every user may try to change them
Crons == {"*/5 * * * *", "0 0 * * *", "0 0 * * 0", "30 9 * * 1"}
InvalidCrons == {"61 * * * *"}   \* rejected by cron.validate: minute out of range
StartTimes == {10079}            \* Saturday 23:59, in minutes since a Sunday 00:00
ExecIds == 1..MaxTicks
OverlapTicks == MaxTicks + 1     \* cron ticks in one behaviour of SpecOverlap
AllExecIds == 1..OverlapTicks
Users == {"u1", "u2"}
Advertisers == {"adv1"}
Descriptions == {"desc1", "desc2"}
AdContents == Advertisers \X Descriptions
SummaryVals == 0..MaxSummary

Max(a, b) == IF a >= b THEN a ELSE b

VARIABLES
    missions,       \* Mission collection: id -> record, NoMission when not stored
    ads,            \* Ad collection: <<advertiser, description, userId>> -> number of documents
    nextId,         \* number of Mission documents created so far
    fbReg,          \* keys of activeFacebookScrapers
    gReg,           \* keys of activeGoogleScrapers
    worker,         \* scraper.ts child process of a mission
    pipe,           \* stdout lines written by the worker, not yet read by the parent
    sup,            \* per-mission closure state of POST /api/scrape
    stop,           \* stopFacebookScraper call in progress for a mission
    google,         \* background task of POST /api/google-ads/scrape
    cards           \* cards handed to saveAd so far

mvars == <<missions, ads, nextId, fbReg, gReg, worker, pipe, sup, stop, google, cards>>

VARIABLES
    schedulers,     \* Scheduler collection: id -> record, NoScheduler when not stored
    nextSid,        \* number of Scheduler documents created so far
    jobs,           \* keys of SchedulerService.jobs (live cron tasks)
    execs,          \* executions started by cron ticks: tick number -> record
    nTicks,         \* cron ticks fired so far
    now,            \* wall clock, minutes since a Sunday 00:00 local time
    elapsed,        \* clock advances so far
    sret            \* how the last scheduler request ended: none, done, invalid, refused, failed

svars == <<schedulers, nextSid, jobs, execs, nTicks, now, elapsed, sret>>

VARIABLES
    loop,           \* performEnhancedScraping of a mission's worker: position, arguments, locals
    today,          \* Ad documents of the worker's owner with a scrape_date of today
    out,            \* characters the worker wrote to stdout, not yet read by the parent
    scriptOutput,   \* scriptOutput of the POST /api/scrape closure
    stdoutBuffer,   \* stdoutBuffer of the POST /api/scrape closure
    found,          \* last evaluation of __findAdCards: the page it saw, the cards it returned
    scroll,         \* last call of scrollForMoreContent: what it saw, what it returned
    runs            \* history of a worker's loop: empty polls and failed scrolls in a row

xvars == <<loop, today, out, scriptOutput, stdoutBuffer, found, scroll, runs>>

vars == <<mvars, svars, xvars>>

\* ------------------------------------------------------------ store records
NoDate == -1

NoMission ==
    [userId |-> "none", status |-> "absent", adsFound |-> 0, newAds |-> 0,
     duplicatesSkipped |-> 0, adsProcessed |-> 0, source |-> "none", updatedAt |-> NoDate]

\* new Mission({..}).save(): updatedAt takes the schema default, Date.now
NewMission(u, src) ==
    [userId |-> u, status |-> "running", adsFound |-> 0, newAds |-> 0,
     duplicatesSkipped |-> 0, adsProcessed |-> 0, source |-> src, updatedAt |-> now]

Stored(m) == missions[m] # NoMission

Terminal == {"completed", "failed", "stopped"}

\* Mission.findByIdAndUpdate(id, {$set: fields}): no document, no change
UpdateMissionDoc(ms, m, fields) ==
    IF ms[m] = NoMission THEN ms
    ELSE [ms EXCEPT ![m] = [f \in DOMAIN ms[m] |->
                              IF f \in DOMAIN fields THEN fields[f] ELSE ms[m][f]]]

\* filter of the findOne in saveAd: advertiser_name, ad_description and the userId
AdKey(c, u) == <<c[1], c[2], u>>
AdKeys == {AdKey(c, u) : c \in AdContents, u \in Users}

NoWorker ==
    [pc |-> "none", exit |-> "none", savedCount |-> 0, processedCount |-> 0,
     duplicateCount |-> 0, content |-> <<"", "">>, existing |-> FALSE,
     userId |-> "none", signalled |-> FALSE, fatal |-> FALSE, summarised |-> FALSE]

NoSup ==
    [scriptSummary |-> -1, memAdsFound |-> 0, memNewAds |-> 0,
     closed |-> FALSE, closeWrote |-> FALSE]

\* seen: the status of the document the stop route read with Mission.findById
NoStop == [pc |-> "idle", by |-> "none", wrote |-> FALSE, seen |-> "absent"]

\* locals of performEnhancedScraping before the call; exit names the statement
\* that left the while loop
NoLoop ==
    [pc |-> "none", exit |-> "none", maxAds |-> 0, dailyLimit |-> 0,
     emptyBatchPatience |-> 0, scrollFailCount |-> 0, pageRefreshCount |-> 0,
     scrollAttempts |-> 0, batchesProcessed |-> 0]

NoRuns == [emptyRun |-> 0, failRun |-> 0]

NoGoogle == [pc |-> "none", closed |-> FALSE, stoppedBy |-> "none"]

MInit ==
    /\ missions = [m \in MissionIds |-> NoMission]
    /\ ads = [k \in AdKeys |-> 0]
    /\ nextId = 0
    /\ fbReg = {}
    /\ gReg = {}
    /\ worker = [m \in MissionIds |-> NoWorker]
    /\ pipe = [m \in MissionIds |-> <<>>]
    /\ sup = [m \in MissionIds |-> NoSup]
    /\ stop = [m \in MissionIds |-> NoStop]
    /\ google = [m \in MissionIds |-> NoGoogle]
    /\ cards = 0

\* ------------------------------------------------- POST /api/scrape (create)
StartScrape(u, ids) ==
    /\ nextId + 1 \in ids
    /\ LET m == nextId + 1 IN
        /\ nextId' = m
        /\ missions' = [missions EXCEPT ![m] = NewMission(u, "facebook")]
        /\ fbReg' = fbReg \cup {m}
        /\ worker' = [worker EXCEPT ![m] = [NoWorker EXCEPT !.pc = "nav", !.userId = u]]
    /\ UNCHANGED <<ads, gReg, pipe, sup, stop, google, cards, svars, xvars>>

\* ------------------------------------------------------ src/db.ts saveAd

\* variant: saveAd stores without looking the record up
SaveAdFindNoLookup(m, c) ==
    /\ worker[m].pc = "run"
    /\ worker[m].savedCount < MaxAds
    /\ cards < MaxCards
    /\ cards' = cards + 1
    /\ worker' = [worker EXCEPT ![m].pc = "saving", ![m].content = c, ![m].existing = FALSE]
    /\ UNCHANGED <<missions, ads, nextId, fbReg, gReg, pipe, sup, stop, google, svars, xvars>>

\* first half of saveAd: await Ad.findOne(filter)
SaveAdFind(m, c) ==
    /\ worker[m].pc = "run"
    /\ worker[m].savedCount < MaxAds
    /\ cards < MaxCards
    /\ cards' = cards + 1
    /\ worker' = [worker EXCEPT ![m].pc = "saving", ![m].content = c,
                                ![m].existing = (ads[AdKey(c, worker[m].userId)] > 0)]
    /\ UNCHANGED <<missions, ads, nextId, fbReg, gReg, pipe, sup, stop, google, svars, xvars>>

NewAdLine == [newAd |-> TRUE, summary |-> -1]
SummaryLine(s) == [newAd |-> FALSE, summary |-> s]

\* second half of saveAd (return false, or ad.save() and return true) and the
\* caller's bookkeeping in performEnhancedScraping
SaveAdStore(m) ==
    /\ worker[m].pc = "saving"
    /\ IF worker[m].existing
       THEN /\ worker' = [worker EXCEPT ![m].pc = "run",
                                        ![m].content = NoWorker.content,
                                        ![m].existing = FALSE,
                                        ![m].duplicateCount = @ + 1,
                                        ![m].processedCount = @ + 1]
            /\ UNCHANGED <<ads, pipe>>
       ELSE /\ ads' = [ads EXCEPT ![AdKey(worker[m].content, worker[m].userId)] = @ + 1]
            /\ worker' = [worker EXCEPT ![m].pc = "run",
                                        ![m].content = NoWorker.content,
                                        ![m].existing = FALSE,
                                        ![m].savedCount = @ + 1,
                                        ![m].processedCount = @ + 1]
            /\ pipe' = [pipe EXCEPT ![m] = Append(@, NewAdLine)]
    /\ UNCHANGED <<missions, nextId, fbReg, gReg, sup, stop, google, cards, svars, xvars>>

\* --------------------------------------------------- src/scraper.ts worker
\* variant: a loop that returned is written as a failure
CompletedFieldsAsFailed(w) ==
    [status |-> "failed", adsFound |-> w.processedCount, newAds |-> w.savedCount,
     duplicatesSkipped |-> w.duplicateCount, adsProcessed |-> w.processedCount,
     updatedAt |-> now]

\* updateMission(missionId, {status: 'completed', ...}) after the loop returned
CompletedFields(w) ==
    [status |-> "completed", adsFound |-> w.processedCount, newAds |-> w.savedCount,
     duplicatesSkipped |-> w.duplicateCount, adsProcessed |-> w.processedCount,
     updatedAt |-> now]

\* savePartialResults: updateMission(mId, {status: 'failed', ...})
FailedFields(w) ==
    [status |-> "failed", adsFound |-> w.processedCount, newAds |-> w.savedCount,
     duplicatesSkipped |-> w.duplicateCount, updatedAt |-> now]

\* the catch block of scrapeAds
FatalWrite(m) ==
    /\ missions' = UpdateMissionDoc(missions, m, FailedFields(worker[m]))
    /\ worker' = [worker EXCEPT ![m].pc = "done", ![m].fatal = TRUE]

\* navigateWithRetry, first page.goto (waitUntil domcontentloaded)
NavigateFirst(m, ok) ==
    /\ worker[m].pc = "nav"
    /\ worker' = [worker EXCEPT ![m].pc = IF ok THEN "run" ELSE "nav2"]
    /\ UNCHANGED <<missions, ads, nextId, fbReg, gReg, pipe, sup, stop, google, cards, svars, xvars>>

\* navigateWithRetry, second page.goto (waitUntil commit); its error is rethrown
NavigateDegraded(m, ok) ==
    /\ worker[m].pc = "nav2"
    /\ IF ok THEN /\ worker' = [worker EXCEPT ![m].pc = "run"]
                  /\ UNCHANGED missions
             ELSE FatalWrite(m)
    /\ UNCHANGED <<ads, nextId, fbReg, gReg, pipe, sup, stop, google, cards, svars, xvars>>

\* a page reload inside performEnhancedScraping (stall reload or stability
\* refresh): stats.processedCount = 0
WorkerReload(m) ==
    /\ worker[m].pc = "run"
    /\ worker[m].processedCount > 0
    /\ worker' = [worker EXCEPT ![m].processedCount = 0]
    /\ UNCHANGED <<missions, ads, nextId, fbReg, gReg, pipe, sup, stop, google, cards, svars, xvars>>

\* performEnhancedScraping returned (cap, budgets, stall or quota) and scrapeAds
\* writes its own result
WorkerComplete(m) ==
    /\ worker[m].pc = "run"
    /\ missions' = UpdateMissionDoc(missions, m, CompletedFields(worker[m]))
    /\ worker' = [worker EXCEPT ![m].pc = "done"]
    /\ UNCHANGED <<ads, nextId, fbReg, gReg, pipe, sup, stop, google, cards, svars, xvars>>

\* an error escapes performEnhancedScraping (a page.evaluate of the loop rejects)
WorkerError(m) ==
    /\ worker[m].pc = "run"
    /\ FatalWrite(m)
    /\ UNCHANGED <<ads, nextId, fbReg, gReg, pipe, sup, stop, google, cards, svars, xvars>>

\* an output line that holds the [MISSION_RESULT_JSON] tag, after the run
WorkerEmitSummary(m, s) ==
    /\ worker[m].pc = "done"
    /\ ~worker[m].summarised
    /\ worker' = [worker EXCEPT ![m].summarised = TRUE]
    /\ pipe' = [pipe EXCEPT ![m] = Append(@, SummaryLine(s))]
    /\ UNCHANGED <<missions, ads, nextId, fbReg, gReg, sup, stop, google, cards, svars, xvars>>

\* main() resolved: scrapeAds swallowed every error, the process ends with code 0
WorkerExit(m) ==
    /\ worker[m].pc = "done"
    /\ worker' = [worker EXCEPT ![m].pc = "exited", ![m].exit = "code0"]
    /\ UNCHANGED <<missions, ads, nextId, fbReg, gReg, pipe, sup, stop, google, cards, svars, xvars>>

Alive(m) == worker[m].pc \in {"nav", "nav2", "run", "saving", "done"}

\* the process dies without returning from main: an uncaught throw of the
\* health-check timer (exit code 1) or a signal (exit code null)
WorkerCrash(m, d) ==
    /\ Alive(m)
    /\ d = "signal" \/ ~worker[m].signalled
    /\ worker' = [worker EXCEPT ![m].pc = "exited", ![m].exit = d]
    /\ UNCHANGED <<missions, ads, nextId, fbReg, gReg, pipe, sup, stop, google, cards, svars, xvars>>

\* ----------------------------------------------- src/scraper.ts __findAdCards
\* for (let i = 0; i < 12 && parent; i++)
WalkLimit == 12

\* a page without any element the strategies look for
EmptyPage ==
    [testId |-> <<>>, links |-> <<>>, scoped |-> FALSE, classCards |-> <<>>, lists |-> <<>>]

NoPoll == [polled |-> FALSE, page |-> EmptyPage, cards |-> <<>>]

\* a page as the four strategies see it.
\* testId: the elements with the data-testid marker under the root.
\* links: one entry per element whose text is a detail-link text, holding its
\*   ancestors below the root from the nearest up, each with its size class.
\* scoped: the root is not document.body.  classCards: the elements matching
\*   the class selectors, with textContent longer than 50 or not.
\* lists: the div elements of the document in order, each as its children.
Ancestor(el, big) == [el |-> el, big |-> big]
LinkChains ==
    {<<>>, <<Ancestor("c1", TRUE)>>, <<Ancestor("c1", FALSE)>>,
     <<Ancestor("c1", FALSE), Ancestor("c2", TRUE)>>, <<Ancestor("c2", TRUE)>>}
LinkLists ==
    {<<>>} \cup {<<a>> : a \in LinkChains} \cup {<<a, a>> : a \in LinkChains}
           \cup {<< <<Ancestor("c1", TRUE)>>, <<Ancestor("c2", TRUE)>> >>}
TestIdLists == {<<>>, <<"t1">>, <<"t1", "t2">>}
ClassCard(el, long) == [el |-> el, long |-> long]
ClassLists ==
    {<<>>, <<ClassCard("k1", TRUE)>>, <<ClassCard("k1", FALSE)>>,
     <<ClassCard("k1", FALSE), ClassCard("k2", TRUE)>>}
Child(el, hasLink, long, tall) == [el |-> el, hasLink |-> hasLink, long |-> long, tall |-> tall]
DivLists ==
    {<<>>,
     << <<Child("d1", TRUE, TRUE, TRUE), Child("d2", TRUE, TRUE, TRUE)>> >>,
     << <<Child("d1", TRUE, TRUE, TRUE), Child("d2", TRUE, TRUE, TRUE),
          Child("d3", TRUE, TRUE, TRUE), Child("d4", TRUE, TRUE, FALSE)>> >>,
     << <<Child("d1", TRUE, TRUE, TRUE), Child("d2", FALSE, TRUE, TRUE),
          Child("d3", TRUE, TRUE, TRUE)>>,
        <<Child("d5", TRUE, TRUE, TRUE), Child("d6", TRUE, TRUE, TRUE),
          Child("d7", TRUE, TRUE, TRUE)>> >>}
Pages ==
    [testId : TestIdLists, links : LinkLists, scoped : BOOLEAN,
     classCards : ClassLists, lists : DivLists]

ElsOf(seq) == [i \in 1..Len(seq) |-> seq[i].el]
InSeq(x, seq) == \E i \in 1..Len(seq) : seq[i] = x

\* strategy 1: querySelectorAll('[data-testid="fb-ad-library-ad-card"]')
MarkerCards(page) == page.testId

\* the walk up from a detail link: the first ancestor wider than 200 and
\* higher than 100, none when the root comes first or after WalkLimit steps
RECURSIVE CardOf(_, _)
CardOf(chain, i) ==
    IF chain = <<>> \/ i >= WalkLimit THEN "none"
    ELSE IF Head(chain).big THEN Head(chain).el
    ELSE CardOf(Tail(chain), i + 1)

\* strategy 2: the containers of the detail links, each once (the seen set)
RECURSIVE DetailContainers(_, _)
DetailContainers(links, acc) ==
    IF links = <<>> THEN acc
    ELSE LET c == CardOf(Head(links), 0)
         IN DetailContainers(Tail(links),
                             IF c # "none" /\ ~InSeq(c, acc) THEN Append(acc, c) ELSE acc)

\* strategy 3: the class selectors, only under a scoped root
IsLong(c) == c.long
ClassCards(page) == IF page.scoped THEN ElsOf(SelectSeq(page.classCards, IsLong)) ELSE <<>>

\* strategy 4: the children of the first div that holds 3 to 200 children of
\* which at least 3 and more than 60% look like cards
CardLike(ch) == ch.hasLink /\ ch.long /\ ch.tall
LinkAndText(ch) == ch.hasLink /\ ch.long
IsResultsList(div) ==
    /\ Len(div) >= 3 /\ Len(div) <= 200
    /\ LET n == Len(SelectSeq(div, CardLike)) IN n >= 3 /\ 10 * n > 6 * Len(div)
RECURSIVE ResultsList(_)
ResultsList(divs) ==
    IF divs = <<>> THEN <<>>
    ELSE IF IsResultsList(Head(divs)) THEN ElsOf(SelectSeq(Head(divs), LinkAndText))
    ELSE ResultsList(Tail(divs))

\* variant: the class selectors are tried before the detail links
FindAdCardsClassFirst(page) ==
    IF MarkerCards(page) # <<>> THEN MarkerCards(page)
    ELSE IF ClassCards(page) # <<>> THEN ClassCards(page)
    ELSE IF DetailContainers(page.links, <<>>) # <<>> THEN DetailContainers(page.links, <<>>)
    ELSE ResultsList(page.lists)

\* window.__findAdCards()
FindAdCards(page) ==
    IF MarkerCards(page) # <<>> THEN MarkerCards(page)
    ELSE IF DetailContainers(page.links, <<>>) # <<>> THEN DetailContainers(page.links, <<>>)
    ELSE IF ClassCards(page) # <<>> THEN ClassCards(page)
    ELSE ResultsList(page.lists)

\* getCardCount / extractAllCardsInBrowser evaluate __findAdCards() on the page
\* as it is at that poll
PollCards(page) ==
    /\ found' = [polled |-> TRUE, page |-> page, cards |-> FindAdCards(page)]
    /\ UNCHANGED <<mvars, svars, loop, today, out, scriptOutput, stdoutBuffer, scroll, runs>>

\* ------------------------------------- src/scraper.ts scrollForMoreContent
\* const maxWait = 3000, scaled down; const pollInterval = 300
maxWait == 600
pollInterval == 300

\* the polls of the while loop, then the check after the jiggle and the check
\* after the full reset
ScrollChecks == (maxWait + pollInterval - 1) \div pollInterval + 2

\* what the page shows at one check: document.body.scrollHeight and the
\* number of cards __findAdCards finds; a virtualized list may drop cards
ScrollHeights == 1..2
ScrollCounts == 0..2
ScrollObs == [h : ScrollHeights, cards : ScrollCounts]
PrevHeights == {1}
PrevCounts == {0, 1}

NoScroll == [called |-> FALSE, prevH |-> 0, prevCardCount |-> 0, obs |-> <<>>, result |-> FALSE]

\* while (elapsed < maxWait), waited being its elapsed: wait, read height and count, return true when
\* either grew; rest is what the page shows at the checks that follow
RECURSIVE PollStage(_, _, _, _)
PollStage(prevH, prevCardCount, obs, waited) ==
    IF waited >= maxWait THEN [hit |-> FALSE, rest |-> obs]
    ELSE IF Head(obs).h > prevH \/ Head(obs).cards > prevCardCount
         THEN [hit |-> TRUE, rest |-> Tail(obs)]
         ELSE PollStage(prevH, prevCardCount, Tail(obs), waited + pollInterval)

\* the value scrollForMoreContent returns: the poll and the check after the
\* jiggle compare height and count, the check after the reset the count only
ScrollForMoreContent(prevH, prevCardCount, obs) ==
    LET p == PollStage(prevH, prevCardCount, obs, 0) IN
    IF p.hit THEN TRUE
    ELSE LET final == p.rest[1]
             last == p.rest[2]
         IN IF final.h > prevH \/ final.cards > prevCardCount THEN TRUE
            ELSE last.cards > prevCardCount

\* a call of scrollForMoreContent on a page that showed prevCardCount cards
\* and height prevH before the scroll and shows obs at the checks
ScrollCall(prevH, prevCardCount, obs) ==
    /\ scroll' = [called |-> TRUE, prevH |-> prevH, prevCardCount |-> prevCardCount,
                  obs |-> obs, result |-> ScrollForMoreContent(prevH, prevCardCount, obs)]
    /\ UNCHANGED <<mvars, svars, loop, today, out, scriptOutput, stdoutBuffer, found, runs>>

\* ------------------------------ src/scraper.ts performEnhancedScraping (the loop)
\* the budgets of the loop, scaled down: the source has 5, 8 and 3
maxEmptyBatchPatience == 2
maxScrollFails == 2
maxPageRefreshes == 1

\* scraperConfig, scaled down: the source has 50, 10 and 50000
batchProcessingSize == 2
dailyLimitCheckInterval == 2
maxScrollAttempts == 4

\* scraperConfig.refreshInterval: 60 full batches in the source, 3 here; as in
\* the source it is more than dailyLimitCheckInterval batches can save
refreshInterval == 3 * batchProcessingSize

\* what getCardCount can return: a short page, and a long one
CardCounts == 0..(batchProcessingSize + 1)
LongPageCounts == 0..(4 * batchProcessingSize)

\* --max-ads and --daily-limit of the worker's command line
MaxAdsArgs == {1, batchProcessingSize + 1}
LargeMaxAdsArgs == {4 * batchProcessingSize}
DailyLimitArgs == {3}

Min(a, b) == IF a <= b THEN a ELSE b

\* what extractAllCardsInBrowser can return for a batch of n cards, each
\* result given by what saveAd answers for it (TRUE: stored, FALSE: not
\* stored); cards that fail extraction are left out, so the list may be
\* shorter than n, or empty
Extracted(n) == UNION {[1..k -> BOOLEAN] : k \in 0..n}

\* scrapeAds called performEnhancedScraping(page, keyword, maxAds, dailyLimit, ..)
LoopEnter(m, maxAds, dailyLimit) ==
    /\ worker[m].pc = "run"
    /\ loop[m].pc = "none"
    /\ loop' = [loop EXCEPT ![m] = [NoLoop EXCEPT !.pc = "head", !.maxAds = maxAds,
                                                  !.dailyLimit = dailyLimit]]
    /\ UNCHANGED <<mvars, svars, today, out, scriptOutput, stdoutBuffer, found, scroll, runs>>

\* the condition of the while statement
LoopCondition(m) ==
    /\ worker[m].savedCount < loop[m].maxAds
    /\ loop[m].scrollAttempts < maxScrollAttempts

AtHead(m) == worker[m].pc = "run" /\ loop[m].pc = "head"

\* the while condition is false: the loop is left
LoopLeave(m) ==
    /\ AtHead(m)
    /\ ~LoopCondition(m)
    /\ loop' = [loop EXCEPT ![m].pc = "returned",
                            ![m].exit = IF worker[m].savedCount >= loop[m].maxAds
                                        THEN "cap" ELSE "scroll"]
    /\ UNCHANGED <<mvars, svars, today, out, scriptOutput, stdoutBuffer, found, scroll, runs>>

\* page.reload() of a stalled loop: the reload counter and processedCount = 0
StallReload(l) == [l EXCEPT !.pageRefreshCount = @ + 1]

\* an iteration with count === 0
EmptyPoll(m) ==
    /\ AtHead(m)
    /\ LoopCondition(m)
    /\ LET l == [loop[m] EXCEPT !.emptyBatchPatience = @ + 1] IN
        IF l.emptyBatchPatience >= maxEmptyBatchPatience
        THEN IF l.pageRefreshCount < maxPageRefreshes
             THEN /\ loop' = [loop EXCEPT ![m] = [StallReload(l) EXCEPT !.emptyBatchPatience = 0]]
                  /\ worker' = [worker EXCEPT ![m].processedCount = 0]
             ELSE /\ loop' = [loop EXCEPT ![m] = [l EXCEPT !.pc = "returned", !.exit = "stall"]]
                  /\ UNCHANGED worker
        ELSE /\ loop' = [loop EXCEPT ![m] = [l EXCEPT !.scrollAttempts = @ + 1]]
             /\ UNCHANGED worker
    /\ UNCHANGED <<missions, ads, nextId, fbReg, gReg, pipe, sup, stop, google, cards,
                   svars, today, out, scriptOutput, stdoutBuffer, found, scroll>>

\* an iteration with count > 0 and no unprocessed card (batchSize <= 0):
\* scrollForMoreContent returned scrollWorked
ScrollForMore(m, count, scrollWorked) ==
    /\ AtHead(m)
    /\ LoopCondition(m)
    /\ count > 0
    /\ Min(batchProcessingSize, count - worker[m].processedCount) <= 0
    /\ LET l == [loop[m] EXCEPT !.emptyBatchPatience = 0, !.scrollAttempts = @ + 1] IN
        IF scrollWorked
        THEN /\ loop' = [loop EXCEPT ![m] = [l EXCEPT !.scrollFailCount = 0]]
             /\ UNCHANGED worker
        ELSE IF l.scrollFailCount + 1 >= maxScrollFails
             THEN IF l.pageRefreshCount < maxPageRefreshes
                  THEN /\ loop' = [loop EXCEPT ![m] = [StallReload(l) EXCEPT !.scrollFailCount = 0]]
                       /\ worker' = [worker EXCEPT ![m].processedCount = 0]
                  ELSE /\ loop' = [loop EXCEPT ![m] =
                                     [l EXCEPT !.scrollFailCount = @ + 1,
                                               !.pc = "returned", !.exit = "stall"]]
                       /\ UNCHANGED worker
             ELSE /\ loop' = [loop EXCEPT ![m] = [l EXCEPT !.scrollFailCount = @ + 1]]
                  /\ UNCHANGED worker
    /\ UNCHANGED <<missions, ads, nextId, fbReg, gReg, pipe, sup, stop, google, cards,
                   svars, today, out, scriptOutput, stdoutBuffer, found, scroll>>

\* variant: the for loop saves every extracted card
RECURSIVE SaveBatchNoCap(_, _, _)
SaveBatchNoCap(st, extracted, maxAds) ==
    IF extracted = <<>> THEN st
    ELSE SaveBatchNoCap(
            [st EXCEPT !.savedCount = IF Head(extracted) THEN @ + 1 ELSE @,
                       !.batchNew = IF Head(extracted) THEN @ + 1 ELSE @,
                       !.duplicateCount = IF Head(extracted) THEN @ ELSE @ + 1,
                       !.processedCount = @ + 1],
            Tail(extracted), maxAds)

\* for (const adData of extractedAds): break at the cap, else saveAd and count
RECURSIVE SaveBatch(_, _, _)
SaveBatch(st, extracted, maxAds) ==
    IF extracted = <<>> \/ st.savedCount >= maxAds THEN st
    ELSE SaveBatch(
            [st EXCEPT !.savedCount = IF Head(extracted) THEN @ + 1 ELSE @,
                       !.batchNew = IF Head(extracted) THEN @ + 1 ELSE @,
                       !.duplicateCount = IF Head(extracted) THEN @ ELSE @ + 1,
                       !.processedCount = @ + 1],
            Tail(extracted), maxAds)

\* one NEW AD line per stored record
NewAdLines(n) == [i \in 1..n |-> NewAdLine]

\* what follows the for loop: stability refresh, scroll, cap, daily limit.
\* st holds the counters after the batch, stored the owner's count of today
AfterBatch(l, st, count, stored) ==
    LET b == [l EXCEPT !.batchesProcessed = (@ + 1) % dailyLimitCheckInterval] IN
    IF st.batchNew > 0 /\ st.savedCount > 0 /\ st.savedCount % refreshInterval = 0
    THEN [loop |-> b, processedCount |-> 0]
    ELSE LET scrolled == st.savedCount < l.maxAds /\ st.processedCount >= count
             s == IF scrolled THEN [b EXCEPT !.scrollAttempts = @ + 1] ELSE b
         IN IF ~scrolled /\ st.savedCount >= l.maxAds
            THEN [loop |-> [s EXCEPT !.pc = "returned", !.exit = "cap"],
                  processedCount |-> st.processedCount]
            ELSE IF s.batchesProcessed = 0 /\ stored >= l.dailyLimit
                 THEN [loop |-> [s EXCEPT !.pc = "returned", !.exit = "quota"],
                       processedCount |-> st.processedCount]
                 ELSE [loop |-> s, processedCount |-> st.processedCount]

\* an iteration with unprocessed cards: extraction, the saves, and the rest of
\* the loop body; batchesProcessed is kept modulo dailyLimitCheckInterval, the
\* only way the loop reads it
ProcessBatch(m, count, extracted) ==
    /\ AtHead(m)
    /\ LoopCondition(m)
    /\ count > worker[m].processedCount
    /\ extracted \in Extracted(Min(batchProcessingSize, count - worker[m].processedCount))
    /\ LET st == SaveBatch([savedCount |-> worker[m].savedCount, batchNew |-> 0,
                            duplicateCount |-> worker[m].duplicateCount,
                            processedCount |-> worker[m].processedCount],
                           extracted, loop[m].maxAds)
           l == [loop[m] EXCEPT !.emptyBatchPatience = 0, !.scrollFailCount = 0]
           r == AfterBatch(l, st, count, today + st.batchNew)
       IN /\ worker' = [worker EXCEPT ![m].savedCount = st.savedCount,
                                      ![m].duplicateCount = st.duplicateCount,
                                      ![m].processedCount = r.processedCount]
          /\ today' = today + st.batchNew
          /\ pipe' = [pipe EXCEPT ![m] = @ \o NewAdLines(st.batchNew)]
          /\ loop' = [loop EXCEPT ![m] = r.loop]
    /\ UNCHANGED <<missions, ads, nextId, fbReg, gReg, sup, stop, google, cards,
                   svars, out, scriptOutput, stdoutBuffer, found, scroll>>

\* the history of an iteration that polled count cards, not read by the code:
\* emptyRun is the number of polls of the loop in a row, up to now, that found
\* no card, failRun the number of calls of scrollForMoreContent in a row, up
\* to now, that returned false, both counted up to the budget they are
\* compared with.  Every call of scrollForMoreContent follows a
\* stats.scrollAttempts++, and scrollWorked is what that call returned
Tracked(m, count, scrollWorked) ==
    runs' = [runs EXCEPT
               ![m].emptyRun = IF count = 0 THEN Min(@ + 1, maxEmptyBatchPatience) ELSE 0,
               ![m].failRun = IF loop'[m].scrollAttempts = loop[m].scrollAttempts THEN @
                              ELSE IF scrollWorked THEN 0
                              ELSE Min(@ + 1, maxScrollFails)]

\* performEnhancedScraping returned and scrapeAds writes its result
LoopComplete(m) ==
    /\ loop[m].pc = "returned"
    /\ WorkerComplete(m)

\* a page.evaluate of the loop rejects
LoopError(m) ==
    /\ loop[m].pc = "head"
    /\ WorkerError(m)

\* another mission of the same owner stores a record while the owner is
\* below the daily limit
OtherSave(m) ==
    /\ AtHead(m)
    /\ today < loop[m].dailyLimit
    /\ today' = today + 1
    /\ UNCHANGED <<mvars, svars, loop, out, scriptOutput, stdoutBuffer, found, scroll, runs>>

\* ------------------------------------------- server.js, POST /api/scrape closure
RECURSIVE CountNewAd(_)
CountNewAd(lines) ==
    IF lines = <<>> THEN 0
    ELSE (IF Head(lines).newAd THEN 1 ELSE 0) + CountNewAd(Tail(lines))

\* scriptOutput.match(/\[MISSION_RESULT_JSON\] (.+)/): the first tagged line
RECURSIVE FirstSummary(_)
FirstSummary(lines) ==
    IF lines = <<>> THEN -1
    ELSE IF Head(lines).summary # -1 THEN Head(lines).summary
    ELSE FirstSummary(Tail(lines))

\* checkFinalResult(): Math.max into the in-memory mission object of the registry entry
CheckFinalResult(sp, inReg) ==
    IF inReg /\ sp.scriptSummary # -1
    THEN [sp EXCEPT !.memAdsFound = Max(@, sp.scriptSummary),
                    !.memNewAds = Max(@, sp.scriptSummary)]
    ELSE sp

\* Mission.findByIdAndUpdate(.., {$inc: {newAds: 1, adsFound: 1}}), once per NEW AD line
\* with $set: {updatedAt: new Date()}; a chunk without such a line writes nothing
IncFields(doc, n) ==
    [newAds |-> doc.newAds + n, adsFound |-> doc.adsFound + n,
     updatedAt |-> IF n > 0 THEN now ELSE doc.updatedAt]

\* scraper.stdout.on('data'): every complete line is handled while the mission
\* is registered, then checkFinalResult()
StdoutData(m) ==
    /\ pipe[m] # <<>>
    /\ LET seen == IF sup[m].scriptSummary # -1 THEN sup[m].scriptSummary
                   ELSE FirstSummary(pipe[m])
           incs == IF m \in fbReg THEN CountNewAd(pipe[m]) ELSE 0
           sp   == [sup[m] EXCEPT !.scriptSummary = seen]
       IN /\ sup' = [sup EXCEPT ![m] = CheckFinalResult(sp, m \in fbReg)]
          /\ missions' = UpdateMissionDoc(missions, m, IncFields(missions[m], incs))
    /\ pipe' = [pipe EXCEPT ![m] = <<>>]
    /\ UNCHANGED <<ads, nextId, fbReg, gReg, worker, stop, google, cards, svars, xvars>>

\* the same handler, character by character. "N","A" stands for the text NEW AD
OutChars == {"N", "A", "\n"}
NewAdTag == <<"N", "A">>

\* the worker writes a character to stdout
WriteOut(m, c) ==
    /\ Alive(m)
    /\ Len(scriptOutput[m]) + Len(out[m]) < MaxStream
    /\ out' = [out EXCEPT ![m] = Append(@, c)]
    /\ UNCHANGED <<mvars, svars, loop, today, scriptOutput, stdoutBuffer, found, scroll, runs>>

\* buffer.split('\n') followed by lines.pop(): the complete lines, and the rest
RECURSIVE SplitLines(_, _, _)
SplitLines(chars, lines, cur) ==
    IF chars = <<>> THEN [lines |-> lines, rest |-> cur]
    ELSE IF Head(chars) = "\n" THEN SplitLines(Tail(chars), Append(lines, cur), <<>>)
    ELSE SplitLines(Tail(chars), lines, Append(cur, Head(chars)))

\* line.includes('NEW AD')
Includes(line, tag) ==
    \E i \in 1..Len(line) :
        i + Len(tag) - 1 <= Len(line) /\ SubSeq(line, i, i + Len(tag) - 1) = tag

\* the $inc updates lines.forEach issues: one per line that holds the tag
RECURSIVE CountTagged(_)
CountTagged(lines) ==
    IF lines = <<>> THEN 0
    ELSE (IF Includes(Head(lines), NewAdTag) THEN 1 ELSE 0) + CountTagged(Tail(lines))

\* variant: every chunk is split on its own, its last piece is dropped
StdoutChunkNoBuffer(m, k) ==
    /\ k \in 1..Len(out[m])
    /\ LET chunk == SubSeq(out[m], 1, k)
           split == SplitLines(chunk, <<>>, <<>>)
           incs  == IF m \in fbReg THEN CountTagged(split.lines) ELSE 0
       IN /\ scriptOutput' = [scriptOutput EXCEPT ![m] = @ \o chunk]
          /\ stdoutBuffer' = [stdoutBuffer EXCEPT ![m] = split.rest]
          /\ out' = [out EXCEPT ![m] = SubSeq(@, k + 1, Len(@))]
          /\ missions' = UpdateMissionDoc(missions, m, IncFields(missions[m], incs))
    /\ UNCHANGED <<ads, nextId, fbReg, gReg, worker, pipe, sup, stop, google, cards,
                   svars, loop, today, found, scroll, runs>>

\* scraper.stdout.on('data') for a chunk of the first k unread characters;
\* no [MISSION_RESULT_JSON] tag in this alphabet, so checkFinalResult finds nothing
StdoutChunk(m, k) ==
    /\ k \in 1..Len(out[m])
    /\ LET chunk == SubSeq(out[m], 1, k)
           split == SplitLines(stdoutBuffer[m] \o chunk, <<>>, <<>>)
           incs  == IF m \in fbReg THEN CountTagged(split.lines) ELSE 0
       IN /\ scriptOutput' = [scriptOutput EXCEPT ![m] = @ \o chunk]
          /\ stdoutBuffer' = [stdoutBuffer EXCEPT ![m] = split.rest]
          /\ out' = [out EXCEPT ![m] = SubSeq(@, k + 1, Len(@))]
          /\ missions' = UpdateMissionDoc(missions, m, IncFields(missions[m], incs))
    /\ UNCHANGED <<ads, nextId, fbReg, gReg, worker, pipe, sup, stop, google, cards,
                   svars, loop, today, found, scroll, runs>>

\* variant: the signal case is not told apart from an error exit
FinalStatusNoSignal(exit) == IF exit = "code0" THEN "completed" ELSE "failed"

\* let finalStatus = code === 0 ? 'completed' : (code === null ? 'stopped' : 'failed')
FinalStatus(exit) ==
    IF exit = "code0" THEN "completed"
    ELSE IF exit = "signal" THEN "stopped" ELSE "failed"

\* variant: the close handler removes the registry entry and writes nothing
CloseNoWrite(m) ==
    /\ worker[m].pc = "exited"
    /\ pipe[m] = <<>>
    /\ ~sup[m].closed
    /\ sup' = [sup EXCEPT ![m] = [CheckFinalResult(sup[m], m \in fbReg) EXCEPT !.closed = TRUE]]
    /\ fbReg' = fbReg \ {m}
    /\ UNCHANGED <<missions, ads, nextId, gReg, worker, pipe, stop, google, cards, svars, xvars>>

\* scraper.on('close'); 'close' comes after the output streams ended
Close(m) ==
    /\ worker[m].pc = "exited"
    /\ pipe[m] = <<>>
    /\ ~sup[m].closed
    /\ LET sp == CheckFinalResult(sup[m], m \in fbReg) IN
        IF m \in fbReg
        THEN /\ missions' = UpdateMissionDoc(missions, m,
                                  [status |-> FinalStatus(worker[m].exit), updatedAt |-> now])
             /\ sup' = [sup EXCEPT ![m] = [sp EXCEPT !.closed = TRUE, !.closeWrote = TRUE]]
        ELSE /\ sup' = [sup EXCEPT ![m] = [sp EXCEPT !.closed = TRUE]]
             /\ UNCHANGED missions
    /\ fbReg' = fbReg \ {m}
    /\ UNCHANGED <<ads, nextId, gReg, worker, pipe, stop, google, cards, svars, xvars>>

\* ------------------------------------------------ server.js, POST /api/scrape/stop
\* if (mission && mission.userId !== userId) -> 403 / continue
MayStop(u, m) == missions[m] = NoMission \/ missions[m].userId = u

\* the missionId branch, up to the call of stopFacebookScraper; 404 and 403
\* return without a state change
StopById(u, m) ==
    /\ m \in fbReg
    /\ MayStop(u, m)
    /\ stop[m].pc = "idle"
    /\ stop' = [stop EXCEPT ![m] = [pc |-> "called", by |-> u, wrote |-> FALSE,
                                    seen |-> missions[m].status]]
    /\ UNCHANGED <<missions, ads, nextId, fbReg, gReg, worker, pipe, sup, google, cards, svars, xvars>>

\* the missions the stop-all loop hands to stopFacebookScraper
StopTargets(u) == {m \in fbReg : MayStop(u, m) /\ stop[m].pc = "idle"}

\* the branch without missionId
StopAll(u) ==
    /\ StopTargets(u) # {}
    /\ stop' = [m \in MissionIds |->
                  IF m \in StopTargets(u)
                  THEN [pc |-> "called", by |-> u, wrote |-> FALSE, seen |-> missions[m].status]
                  ELSE stop[m]]
    /\ UNCHANGED <<missions, ads, nextId, fbReg, gReg, worker, pipe, sup, google, cards, svars, xvars>>

\* stopFacebookScraper: await Mission.findByIdAndUpdate(id, {$set: {status: 'stopped', ..}})
StopWrite(m) ==
    /\ stop[m].pc = "called"
    /\ missions' = UpdateMissionDoc(missions, m, [status |-> "stopped", updatedAt |-> now])
    /\ stop' = [stop EXCEPT ![m].pc = "written", ![m].wrote = TRUE]
    /\ UNCHANGED <<ads, nextId, fbReg, gReg, worker, pipe, sup, google, cards, svars, xvars>>

\* variant: the signal is sent without awaiting the status write
KillReadyEarly(m) == stop[m].pc \in {"called", "written"}

\* the point of stopFacebookScraper at which info.process.kill('SIGTERM') runs
KillReady(m) == stop[m].pc = "written"

\* variant: the kill clears the whole registry and signals every worker
StopKillEvery(m) ==
    /\ stop[m].pc \in {"called", "written"}
    /\ KillReady(m)
    /\ worker' = [n \in MissionIds |-> [worker[n] EXCEPT !.signalled = Alive(n) \/ @]]
    /\ fbReg' = {}
    /\ stop' = [stop EXCEPT ![m].pc = "killed"]
    /\ UNCHANGED <<missions, ads, nextId, gReg, pipe, sup, google, cards, svars, xvars>>

\* stopFacebookScraper: info.process.kill('SIGTERM'); activeFacebookScrapers.delete(id)
StopKill(m) ==
    /\ stop[m].pc \in {"called", "written"}
    /\ KillReady(m)
    /\ worker' = [worker EXCEPT ![m].signalled = Alive(m) \/ @]
    /\ fbReg' = fbReg \ {m}
    /\ stop' = [stop EXCEPT ![m].pc = "killed"]
    /\ UNCHANGED <<missions, ads, nextId, gReg, pipe, sup, google, cards, svars, xvars>>

\* -------------------------------------------- server.js, Google Ads missions
\* POST /api/google-ads/scrape: mission stored, scraper instance registered
StartGoogle(u, ids) ==
    /\ nextId + 1 \in ids
    /\ LET m == nextId + 1 IN
        /\ nextId' = m
        /\ missions' = [missions EXCEPT ![m] = NewMission(u, "google_ads")]
        /\ gReg' = gReg \cup {m}
        /\ google' = [google EXCEPT ![m].pc = "run"]
    /\ UNCHANGED <<ads, fbReg, worker, pipe, sup, stop, cards, svars, xvars>>

\* the background task ends: mission.save() of the result (n ads found and
\* saved) or of status failed, then the finally block
GoogleFinish(m, ok, n) ==
    /\ google[m].pc = "run"
    /\ missions' = UpdateMissionDoc(missions, m,
                        IF ok THEN [status |-> "completed", adsFound |-> n, newAds |-> n]
                              ELSE [status |-> "failed"])
    /\ gReg' = gReg \ {m}
    /\ google' = [google EXCEPT ![m].pc = "done", ![m].closed = TRUE]
    /\ UNCHANGED <<ads, nextId, fbReg, worker, pipe, sup, stop, cards, svars, xvars>>

\* the missions a Google stop request of user u hands to stopGoogleScraper:
\* with a missionId the ownership check, without one every registered mission
GoogleStopTargets(u, byId) ==
    IF byId THEN {m \in gReg : MayStop(u, m)} ELSE gReg

\* stopGoogleScraper: status stopped, scraper.close(), registry delete
StopGoogleScraper(u, targets) ==
    /\ missions' = [m \in MissionIds |->
                      IF m \in targets
                      THEN UpdateMissionDoc(missions, m, [status |-> "stopped", updatedAt |-> now])[m]
                      ELSE missions[m]]
    /\ google' = [m \in MissionIds |->
                    IF m \in targets
                    THEN [google[m] EXCEPT !.closed = TRUE, !.stoppedBy = u]
                    ELSE google[m]]
    /\ gReg' = gReg \ targets

\* POST /api/google-ads/stop with a missionId
GoogleStopById(u, m) ==
    /\ m \in GoogleStopTargets(u, TRUE)
    /\ StopGoogleScraper(u, {m})
    /\ UNCHANGED <<ads, nextId, fbReg, worker, pipe, sup, stop, cards, svars, xvars>>

\* POST /api/google-ads/stop without a missionId
GoogleStopAll(u) ==
    /\ gReg # {}
    /\ StopGoogleScraper(u, GoogleStopTargets(u, FALSE))
    /\ UNCHANGED <<ads, nextId, fbReg, worker, pipe, sup, stop, cards, svars, xvars>>

\* ----------------------------------------- scheduler.ts (src/unnamed/part_009)
MinutesPerDay == 1440

NoScheduler ==
    [userId |-> "none", keyword |-> "none", cronExpression |-> "none", isActive |-> FALSE,
     lastRun |-> NoDate, nextRun |-> NoDate, totalRuns |-> 0, successfulRuns |-> 0,
     failedRuns |-> 0]

NoExec ==
    [sid |-> 0, retryCount |-> 0, phase |-> "none", cron |-> "none", userId |-> "none",
     isTimeout |-> FALSE, recorded |-> "none", mission |-> "none"]

\* an execution that is over: only what it recorded and after how many
\* retries; mission is the stored status of its Mission
Ended(x, rec) ==
    [NoExec EXCEPT !.sid = x.sid, !.phase = "ended", !.retryCount = x.retryCount, !.recorded = rec]

SInit ==
    /\ schedulers = [i \in SchedIds |-> NoScheduler]
    /\ nextSid = 0
    /\ jobs = {}
    /\ execs = [e \in AllExecIds |-> NoExec]
    /\ nTicks = 0
    /\ now \in StartTimes
    /\ elapsed = 0
    /\ sret = "none"

\* the worker's loop has not been entered, nothing was written or read
XInit ==
    /\ loop = [m \in MissionIds |-> NoLoop]
    /\ today = 0
    /\ out = [m \in MissionIds |-> <<>>]
    /\ scriptOutput = [m \in MissionIds |-> <<>>]
    /\ stdoutBuffer = [m \in MissionIds |-> <<>>]
    /\ found = NoPoll
    /\ scroll = NoScroll
    /\ runs = [m \in MissionIds |-> NoRuns]

Init == MInit /\ SInit /\ XInit

\* variant: the daily pattern sets midnight of the current day
GetNextRunTimeToday(cron, t) ==
    IF cron = "0 0 * * *" THEN (t \div MinutesPerDay) * MinutesPerDay ELSE t + 60

\* getNextRunTime(cronExpression) at instant t; the normalised form never
\* equals a listed pattern, so only the two literal spellings match
GetNextRunTime(cron, t) ==
    CASE cron \in {"*/2 * * * *", "*/2*****"} -> t + 2
      [] cron \in {"*/3 * * * *", "*/3*****"} -> t + 3
      [] cron \in {"*/5 * * * *", "*/5*****"} -> t + 5
      [] cron \in {"*/10 * * * *", "*/10*****"} -> t + 10
      [] cron \in {"*/15 * * * *", "*/15*****"} -> t + 15
      [] cron \in {"*/30 * * * *", "*/30*****"} -> t + 30
      [] cron = "0 */1 * * *" -> t + 60
      [] cron = "0 */6 * * *" -> t + 360
      [] cron = "0 */12 * * *" -> t + 720
      [] cron = "0 0 * * *" -> ((t \div MinutesPerDay) + 1) * MinutesPerDay
      [] cron = "0 0 * * 0" ->
            ((t \div MinutesPerDay) + (7 - ((t \div MinutesPerDay) % 7))) * MinutesPerDay
      [] OTHER -> t + 60

\* Scheduler.findByIdAndUpdate(id, fields): no document, no change
UpdateSchedulerDoc(ss, i, fields) ==
    IF ss[i] = NoScheduler THEN ss
    ELSE [ss EXCEPT ![i] = [f \in DOMAIN ss[i] |->
                              IF f \in DOMAIN fields THEN fields[f] ELSE ss[i][f]]]

\* variant: createJob installs the task and leaves nextRun as it was
CreateJobKeepNextRun(ss, i, cron) ==
    /\ jobs' = jobs \cup {i}
    /\ schedulers' = ss

\* createJob: the cron task replaces an existing one, nextRun is rewritten
CreateJob(ss, i, cron) ==
    /\ jobs' = jobs \cup {i}
    /\ schedulers' = UpdateSchedulerDoc(ss, i, [nextRun |-> GetNextRunTime(cron, now)])

\* cron.validate(cronExpression) of node-cron, on the expressions requests carry
CronValid(cron) == cron \in Crons

\* variant: the route does not validate; createJob throws after the record was saved
AddSchedulerUnchecked(u, k, cron, ids) ==
    /\ LET same == {i \in SchedIds : schedulers[i] # NoScheduler
                                     /\ schedulers[i].keyword = k /\ schedulers[i].userId = u}
       IN IF same # {}
          THEN LET i == CHOOSE x \in same : \A y \in same : x <= y IN
               /\ schedulers' = UpdateSchedulerDoc(schedulers, i,
                                    [cronExpression |-> cron, isActive |-> TRUE])
               /\ UNCHANGED <<nextSid, jobs>>
          ELSE /\ nextSid + 1 \in ids
               /\ nextSid' = nextSid + 1
               /\ schedulers' = [schedulers EXCEPT ![nextSid + 1] =
                                    [NoScheduler EXCEPT !.userId = u, !.keyword = k,
                                                        !.cronExpression = cron, !.isActive = TRUE,
                                                        !.nextRun = GetNextRunTime(cron, now)]]
               /\ UNCHANGED jobs
    /\ sret' = "invalid"
    /\ UNCHANGED <<execs, nTicks, now, elapsed, mvars, xvars>>

\* POST /api/schedulers and addScheduler; new records take their id from ids
AddScheduler(u, k, cron, ids) ==
    /\ IF ~CronValid(cron)
       THEN /\ sret' = "invalid"
            /\ UNCHANGED <<schedulers, nextSid, jobs>>
       ELSE /\ LET same == {i \in SchedIds : schedulers[i] # NoScheduler
                                /\ schedulers[i].keyword = k /\ schedulers[i].userId = u}
               IN IF same # {}
                  THEN LET i == CHOOSE x \in same : \A y \in same : x <= y IN
                       /\ CreateJob(UpdateSchedulerDoc(schedulers, i,
                                        [cronExpression |-> cron, isActive |-> TRUE]), i, cron)
                       /\ UNCHANGED nextSid
                  ELSE /\ nextSid + 1 \in ids
                       /\ nextSid' = nextSid + 1
                       /\ CreateJob([schedulers EXCEPT ![nextSid + 1] =
                                        [NoScheduler EXCEPT !.userId = u, !.keyword = k,
                                                            !.cronExpression = cron,
                                                            !.isActive = TRUE,
                                                            !.nextRun = GetNextRunTime(cron, now)]],
                                    nextSid + 1, cron)
            /\ sret' = "done"
    /\ UNCHANGED <<execs, nTicks, now, elapsed, mvars, xvars>>

\* variant: stopJob stops the task and keeps its entry
StopJobKeepEntry(i) == jobs

\* stopJob: task.stop() and jobs.delete(id)
StopJob(i) == jobs \ {i}

\* request bodies of PUT /api/schedulers/:id
SchedUpdates ==
    {[isActive |-> TRUE], [isActive |-> FALSE]} \cup {[cronExpression |-> c] : c \in Crons}

KeywordUpdates == {[keyword |-> k] : k \in Keywords}

\* a body that names userId: the route hands req.body to updateScheduler as it is
OwnerUpdates == {[userId |-> u] : u \in Users}

InvalidCronUpdates == {[cronExpression |-> c] : c \in InvalidCrons}

\* variant: no ownership check
OwnsSchedulerAnyone(u, i) == TRUE

\* the ownership check of updateScheduler and deleteScheduler
OwnsScheduler(u, i) == schedulers[i].userId = u

\* updateScheduler(id, updates, userId)
UpdateScheduler(u, i, updates) ==
    /\ schedulers[i] # NoScheduler
    /\ IF ~OwnsScheduler(u, i)
       THEN /\ sret' = "refused"
            /\ UNCHANGED <<schedulers, jobs>>
       ELSE LET updated == UpdateSchedulerDoc(schedulers, i, updates)
            IN IF "isActive" \in DOMAIN updates /\ ~updates.isActive
               THEN /\ schedulers' = updated
                    /\ jobs' = StopJob(i)
                    /\ sret' = "done"
               ELSE IF "isActive" \in DOMAIN updates \/ "cronExpression" \in DOMAIN updates
               THEN IF CronValid(updated[i].cronExpression)
                    THEN /\ CreateJob(updated, i, updated[i].cronExpression)
                         /\ sret' = "done"
                    ELSE \* createJob throws after the record was written
                         /\ schedulers' = updated
                         /\ UNCHANGED jobs
                         /\ sret' = "failed"
               ELSE /\ schedulers' = updated
                    /\ UNCHANGED jobs
                    /\ sret' = "done"
    /\ UNCHANGED <<nextSid, execs, nTicks, now, elapsed, mvars, xvars>>

\* deleteScheduler(id, userId)
DeleteScheduler(u, i) ==
    /\ schedulers[i] # NoScheduler
    /\ IF ~OwnsScheduler(u, i)
       THEN /\ sret' = "refused"
            /\ UNCHANGED <<schedulers, jobs>>
       ELSE /\ sret' = "done"
            /\ jobs' = StopJob(i)
            /\ schedulers' = [schedulers EXCEPT ![i] = NoScheduler]
    /\ UNCHANGED <<nextSid, execs, nTicks, now, elapsed, mvars, xvars>>

\* the records start() arms: it takes the active records in stored order and
\* stops at the first createJob that throws
ArmedAtStart ==
    LET active == {i \in SchedIds : schedulers[i] # NoScheduler /\ schedulers[i].isActive}
    IN {i \in active : \A j \in active : j <= i => CronValid(schedulers[j].cronExpression)}

\* a new server process (no job, no execution, no worker) runs start()
Start ==
    /\ \A e \in ExecIds : execs[e].phase \in {"none", "ended"}
    /\ fbReg = {} /\ gReg = {}
    /\ jobs' = ArmedAtStart
    /\ schedulers' = [i \in SchedIds |->
                        IF i \in ArmedAtStart
                        THEN [schedulers[i] EXCEPT
                                 !.nextRun = GetNextRunTime(schedulers[i].cronExpression, now)]
                        ELSE schedulers[i]]
    /\ UNCHANGED <<nextSid, execs, nTicks, now, elapsed, sret, mvars, xvars>>

\* the cron task fires: executeScrapingJobWithRetry(_id, .., retryCount = 0)
Tick(i) ==
    /\ i \in jobs
    /\ nTicks < MaxTicks
    /\ nTicks' = nTicks + 1
    /\ execs' = [execs EXCEPT ![nTicks + 1] = [NoExec EXCEPT !.sid = i, !.phase = "attempt"]]
    /\ UNCHANGED <<schedulers, nextSid, jobs, now, elapsed, sret, mvars, xvars>>

\* the same callback, up to OverlapTicks times in a behaviour
TickOverlapping(i) ==
    /\ i \in jobs
    /\ nTicks < OverlapTicks
    /\ nTicks' = nTicks + 1
    /\ execs' = [execs EXCEPT ![nTicks + 1] = [NoExec EXCEPT !.sid = i, !.phase = "attempt"]]
    /\ UNCHANGED <<schedulers, nextSid, jobs, now, elapsed, sret, mvars, xvars>>

MaxRetries == 3

\* the update of the exhausted-retry branch of executeScrapingJobWithRetry
ExhaustedFields(doc, t) ==
    [lastRun |-> t, nextRun |-> GetNextRunTime("*/3 * * *", t),
     totalRuns |-> doc.totalRuns + 1, failedRuns |-> doc.failedRuns + 1]

\* one call of executeScrapingJobWithRetry: executeScrapingJob up to its return
\* (it returns once the worker is spawned) or its throw, and the catch block
Attempt(e, throws) ==
    /\ execs[e].phase = "attempt"
    /\ LET i == execs[e].sid
           skip == schedulers[i] = NoScheduler \/ ~schedulers[i].isActive
       IN IF throws
          THEN IF execs[e].retryCount < MaxRetries
               THEN /\ execs' = [execs EXCEPT ![e].phase = "backoff"]
                    /\ UNCHANGED schedulers
               ELSE /\ execs' = [execs EXCEPT ![e] = Ended(execs[e], "exhausted")]
                    /\ schedulers' = UpdateSchedulerDoc(schedulers, i,
                                        ExhaustedFields(schedulers[i], now))
          ELSE IF skip
               THEN /\ execs' = [execs EXCEPT ![e] = Ended(execs[e], "none")]
                    /\ UNCHANGED schedulers
               ELSE /\ execs' = [execs EXCEPT ![e].phase = "running",
                                              ![e].cron = schedulers[i].cronExpression,
                                              ![e].userId = schedulers[i].userId,
                                              ![e].mission = "running"]
                    /\ UNCHANGED schedulers
    /\ UNCHANGED <<nextSid, jobs, nTicks, now, elapsed, sret, mvars, xvars>>

\* the same call in the two steps its awaits allow.  AttemptFind: up to the
\* answer of await Scheduler.findById(_id), with the return for a missing or
\* inactive record and the catch block for a throw
AttemptFind(e, throws) ==
    /\ execs[e].phase = "attempt"
    /\ LET i == execs[e].sid
           skip == schedulers[i] = NoScheduler \/ ~schedulers[i].isActive
       IN IF throws
          THEN IF execs[e].retryCount < MaxRetries
               THEN /\ execs' = [execs EXCEPT ![e].phase = "backoff"]
                    /\ UNCHANGED schedulers
               ELSE /\ execs' = [execs EXCEPT ![e] = Ended(execs[e], "exhausted")]
                    /\ schedulers' = UpdateSchedulerDoc(schedulers, i,
                                        ExhaustedFields(schedulers[i], now))
          ELSE IF skip
               THEN /\ execs' = [execs EXCEPT ![e] = Ended(execs[e], "none")]
                    /\ UNCHANGED schedulers
               ELSE /\ execs' = [execs EXCEPT ![e].phase = "found",
                                              ![e].cron = schedulers[i].cronExpression,
                                              ![e].userId = schedulers[i].userId]
                    /\ UNCHANGED schedulers
    /\ UNCHANGED <<nextSid, jobs, nTicks, now, elapsed, sret, mvars, xvars>>

\* AttemptSave: the record was found active; await mission.save() of the new
\* Mission and the spawn of its worker
AttemptSave(e) ==
    /\ execs[e].phase = "found"
    /\ execs' = [execs EXCEPT ![e].phase = "running", ![e].mission = "running"]
    /\ UNCHANGED <<schedulers, nextSid, jobs, nTicks, now, elapsed, sret, mvars, xvars>>

\* the setTimeout of the retry branch fires: retryCount + 1
Retry(e) ==
    /\ execs[e].phase = "backoff"
    /\ execs' = [execs EXCEPT ![e].phase = "attempt", ![e].retryCount = @ + 1]
    /\ UNCHANGED <<schedulers, nextSid, jobs, nTicks, now, elapsed, sret, mvars, xvars>>

\* the 30 minute timer of executeScrapingJob: isTimeout = true; scraper.kill('SIGTERM')
Timeout(e) ==
    /\ execs[e].phase = "running"
    /\ ~execs[e].isTimeout
    /\ execs' = [execs EXCEPT ![e].isTimeout = TRUE]
    /\ UNCHANGED <<schedulers, nextSid, jobs, nTicks, now, elapsed, sret, mvars, xvars>>

\* variant: a failed run is counted in totalRuns only
RunFieldsTotalOnly(doc, cron, ok, t) ==
    [lastRun |-> t, nextRun |-> GetNextRunTime(cron, t),
     totalRuns |-> doc.totalRuns + 1,
     successfulRuns |-> doc.successfulRuns + (IF ok THEN 1 ELSE 0)]

\* the $inc and dates of the close handler's Scheduler.findByIdAndUpdate
RunFields(doc, cron, ok, t) ==
    [lastRun |-> t, nextRun |-> GetNextRunTime(cron, t),
     totalRuns |-> doc.totalRuns + 1,
     successfulRuns |-> doc.successfulRuns + (IF ok THEN 1 ELSE 0),
     failedRuns |-> doc.failedRuns + (IF ok THEN 0 ELSE 1)]

\* the worker of a scheduled mission writes its own final status (scrapeAds,
\* savePartialResults) while it runs
SchedWorkerWrite(e, st) ==
    /\ execs[e].phase = "running"
    /\ execs[e].mission = "running"
    /\ execs' = [execs EXCEPT ![e].mission = st]
    /\ UNCHANGED <<schedulers, nextSid, jobs, nTicks, now, elapsed, sret, mvars, xvars>>

\* variant: the status follows the exit code also after a timeout
SchedFinalStatusByCode(code, isTimeout) ==
    IF code = "code0" THEN "completed" ELSE "failed"

\* the status the close handler saves: failed after a timeout, else by exit code
SchedFinalStatus(code, isTimeout) ==
    IF isTimeout THEN "failed" ELSE IF code = "code0" THEN "completed" ELSE "failed"

\* scraper.on('close', code) of executeScrapingJob: the worker has ended with
\* exit disposition code
SchedClose(e, code) ==
    /\ execs[e].phase = "running"
    /\ LET i == execs[e].sid
           ok == code = "code0" /\ ~execs[e].isTimeout
       IN /\ execs' = [execs EXCEPT ![e] =
                          [Ended(execs[e], IF ok THEN "success" ELSE "failed") EXCEPT
                              !.mission = SchedFinalStatus(code, execs[e].isTimeout)]]
          /\ schedulers' = UpdateSchedulerDoc(schedulers, i,
                                RunFields(schedulers[i], execs[e].cron, ok, now))
    /\ UNCHANGED <<nextSid, jobs, nTicks, now, elapsed, sret, mvars, xvars>>

\* time passes
Advance ==
    /\ elapsed < MaxElapsed
    /\ elapsed' = elapsed + 1
    /\ now' = now + 1
    /\ UNCHANGED <<schedulers, nextSid, jobs, execs, nTicks, sret, mvars, xvars>>

\* ------------------------------------------------ GET /api/scrape/status
\* a Mission document made by POST /api/scrape, and one made by a scheduled execution
DemandMission(m) == <<"demand", m>>
SchedMission(e) == <<"sched", e>>

RECURSIVE SumOf(_, _)
SumOf(S, field) ==
    IF S = {} THEN 0
    ELSE LET m == CHOOSE x \in S : TRUE IN missions[m][field] + SumOf(S \ {m}, field)

\* the registry entries the status loop keeps for requester u, everyone's when
\* own is FALSE
StatusEntries(u, own) ==
    {m \in fbReg : missions[m] # NoMission /\ (own => missions[m].userId = u)}

\* variant: the loop keeps every entry
StatusOfAll(u) ==
    [activeMissions |-> {DemandMission(m) : m \in StatusEntries(u, FALSE)},
     adsFound |-> SumOf(StatusEntries(u, FALSE), "adsFound"),
     newAds |-> SumOf(StatusEntries(u, FALSE), "newAds")]

\* the response of GET /api/scrape/status to requester u
Status(u) ==
    [activeMissions |-> {DemandMission(m) : m \in StatusEntries(u, TRUE)},
     adsFound |-> SumOf(StatusEntries(u, TRUE), "adsFound"),
     newAds |-> SumOf(StatusEntries(u, TRUE), "newAds")]

\* the missions of owner u whose worker process is running
ActiveMissions(u) ==
    {DemandMission(m) : m \in {x \in MissionIds : /\ Stored(x) /\ missions[x].source = "facebook"
                                                  /\ missions[x].userId = u /\ Alive(x)}}
    \cup {SchedMission(e) : e \in {x \in ExecIds : execs[x].phase = "running"
                                                  /\ execs[x].userId = u}}

\* ------------------------------------------------------------ specifications
\* Spec: one mission, on demand, with every step of its worker and supervisor
Next ==
    \/ \E u \in Users : StartScrape(u, OneMission)
    \/ \E m \in OneMission, ok \in BOOLEAN : NavigateFirst(m, ok)
    \/ \E m \in OneMission, ok \in BOOLEAN : NavigateDegraded(m, ok)
    \/ \E m \in OneMission, c \in AdContents : SaveAdFind(m, c)
    \/ \E m \in OneMission : SaveAdStore(m)
    \/ \E m \in OneMission : WorkerReload(m)
    \/ \E m \in OneMission : WorkerComplete(m)
    \/ \E m \in OneMission : WorkerError(m)
    \/ \E m \in OneMission, s \in SummaryVals : WorkerEmitSummary(m, s)
    \/ \E m \in OneMission : WorkerExit(m)
    \/ \E m \in OneMission, d \in {"code1", "signal"} : WorkerCrash(m, d)
    \/ \E m \in OneMission : StdoutData(m)
    \/ \E m \in OneMission : Close(m)
    \/ \E u \in Users, m \in OneMission : StopById(u, m)
    \/ \E u \in Users : StopAll(u)
    \/ \E m \in OneMission : StopWrite(m)
    \/ \E m \in OneMission : StopKill(m)
    \/ \E u \in Users : StartGoogle(u, OneMission)
    \/ \E m \in OneMission, ok \in BOOLEAN, n \in 0..1 : GoogleFinish(m, ok, n)
    \/ \E u \in Users, m \in OneMission : GoogleStopById(u, m)
    \/ \E u \in Users : GoogleStopAll(u)

Spec == Init /\ [][Next]_vars

\* SpecPair: two missions side by side, their workers without the extraction loop
NextPair ==
    \/ \E u \in Users : StartScrape(u, MissionIds)
    \/ \E m \in MissionIds, ok \in BOOLEAN : NavigateFirst(m, ok)
    \/ \E m \in MissionIds, ok \in BOOLEAN : NavigateDegraded(m, ok)
    \/ \E m \in MissionIds : WorkerComplete(m)
    \/ \E m \in MissionIds : WorkerError(m)
    \/ \E m \in MissionIds : WorkerExit(m)
    \/ \E m \in MissionIds, d \in {"code1", "signal"} : WorkerCrash(m, d)
    \/ \E m \in MissionIds : Close(m)
    \/ \E u \in Users, m \in MissionIds : StopById(u, m)
    \/ \E u \in Users : StopAll(u)
    \/ \E m \in MissionIds : StopWrite(m)
    \/ \E m \in MissionIds : StopKill(m)
    \/ \E u \in Users : StartGoogle(u, MissionIds)
    \/ \E m \in MissionIds, ok \in BOOLEAN, n \in 0..1 : GoogleFinish(m, ok, n)
    \/ \E u \in Users, m \in MissionIds : GoogleStopById(u, m)
    \/ \E u \in Users : GoogleStopAll(u)

SpecPair == Init /\ [][NextPair]_vars

\* SpecSave: two workers in their extraction loops, saving into one Ad collection
NextSave ==
    \/ \E u \in Users : StartScrape(u, MissionIds)
    \/ \E m \in MissionIds, ok \in BOOLEAN : NavigateFirst(m, ok)
    \/ \E m \in MissionIds, ok \in BOOLEAN : NavigateDegraded(m, ok)
    \/ \E m \in MissionIds, c \in AdContents : SaveAdFind(m, c)
    \/ \E m \in MissionIds : SaveAdStore(m)
    \/ \E m \in MissionIds : WorkerReload(m)
    \/ \E m \in MissionIds : WorkerComplete(m)

SpecSave == Init /\ [][NextSave]_vars

\* SpecSched: the scheduler service, its Scheduler records and its executions
NextSched ==
    \/ \E u \in SchedOwners, k \in OneKeyword, c \in Crons : AddScheduler(u, k, c, OneSched)
    \/ \E u \in SchedOwners, i \in OneSched, up \in SchedUpdates : UpdateScheduler(u, i, up)
    \/ \E u \in SchedOwners, i \in OneSched : DeleteScheduler(u, i)
    \/ \E i \in OneSched : Tick(i)
    \/ \E e \in ExecIds, t \in BOOLEAN : Attempt(e, t)
    \/ \E e \in ExecIds : Retry(e)
    \/ \E e \in ExecIds : Timeout(e)
    \/ \E e \in ExecIds, code \in {"code0", "code1"} : SchedClose(e, code)
    \/ Advance

SpecSched == Init /\ [][NextSched]_vars

\* SpecSchedFair: schedules are created, paused and resumed and their ticks
\* execute, at one instant; a started call runs on (the event loop runs every
\* pending call and timer) and a spawned worker ends (it exits by itself or is
\* killed by the 30 minute timer)
NextSchedRun ==
    \/ \E u \in SchedOwners, k \in OneKeyword, c \in Crons : AddScheduler(u, k, c, OneSched)
    \/ \E u \in SchedOwners, i \in OneSched : UpdateScheduler(u, i, [isActive |-> FALSE])
    \/ \E i \in OneSched : Tick(i)
    \/ \E e \in ExecIds, t \in BOOLEAN : Attempt(e, t)
    \/ \E e \in ExecIds : Retry(e)
    \/ \E e \in ExecIds : Timeout(e)
    \/ \E e \in ExecIds, code \in {"code0", "code1"} : SchedClose(e, code)

SchedFairness ==
    \A e \in ExecIds :
        /\ WF_vars(\E t \in BOOLEAN : Attempt(e, t))
        /\ WF_vars(Retry(e))
        /\ WF_vars(\E code \in {"code0", "code1"} : SchedClose(e, code))

SpecSchedFair == Init /\ [][NextSchedRun]_vars /\ SchedFairness

\* SpecEndFair: one on-demand mission and one schedule with their workers.
\* The event loop runs every pending handler and continuation: the stdout
\* data and close events of a worker that wrote or exited, the steps of a stop
\* request that was accepted, the call of executeScrapingJob a tick made; a
\* worker spawned by the scheduler ends (by itself or by the 30 minute timer)
NextEnd ==
    \/ \E u \in SchedOwners : StartScrape(u, OneMission)
    \/ \E m \in OneMission, ok \in BOOLEAN : NavigateFirst(m, ok)
    \/ \E m \in OneMission, ok \in BOOLEAN : NavigateDegraded(m, ok)
    \/ \E m \in OneMission : WorkerComplete(m)
    \/ \E m \in OneMission : WorkerError(m)
    \/ \E m \in OneMission : WorkerEmitSummary(m, 0)
    \/ \E m \in OneMission : WorkerExit(m)
    \/ \E m \in OneMission, d \in {"code1", "signal"} : WorkerCrash(m, d)
    \/ \E m \in OneMission : StdoutData(m)
    \/ \E m \in OneMission : Close(m)
    \/ \E u \in SchedOwners, m \in OneMission : StopById(u, m)
    \/ \E m \in OneMission : StopWrite(m)
    \/ \E m \in OneMission : StopKill(m)
    \/ \E u \in SchedOwners, k \in OneKeyword : AddScheduler(u, k, "*/5 * * * *", OneSched)
    \/ \E i \in OneSched : Tick(i)
    \/ \E e \in ExecIds : Attempt(e, FALSE)
    \/ \E e \in ExecIds : Timeout(e)
    \/ \E e \in ExecIds, code \in {"code0", "code1"} : SchedClose(e, code)

EndFairness ==
    /\ \A m \in OneMission :
          /\ WF_vars(StdoutData(m))
          /\ WF_vars(Close(m))
          /\ WF_vars(StopWrite(m))
          /\ WF_vars(StopKill(m))
    /\ \A e \in ExecIds :
          /\ WF_vars(Attempt(e, FALSE))
          /\ WF_vars(\E code \in {"code0", "code1"} : SchedClose(e, code))

SpecEndFair == Init /\ [][NextEnd]_vars /\ EndFairness

\* SpecPause: a schedule is created, paused, resumed and removed while its
\* ticks and retries execute, the calls taken at their awaits
NextPause ==
    \/ \E u \in SchedOwners, k \in OneKeyword, c \in Crons : AddScheduler(u, k, c, OneSched)
    \/ \E u \in SchedOwners, i \in OneSched, a \in BOOLEAN :
          UpdateScheduler(u, i, [isActive |-> a])
    \/ \E u \in SchedOwners, i \in OneSched : DeleteScheduler(u, i)
    \/ \E i \in OneSched : Tick(i)
    \/ \E e \in ExecIds, t \in BOOLEAN : AttemptFind(e, t)
    \/ \E e \in ExecIds : AttemptSave(e)
    \/ \E e \in ExecIds : Retry(e)
    \/ \E e \in ExecIds : Timeout(e)
    \/ \E e \in ExecIds, code \in {"code0", "code1"} : SchedClose(e, code)

SpecPause == Init /\ [][NextPause]_vars

\* SpecOverlap: the ticks of one schedule, each with its execution, the next
\* tick coming whether or not the worker of the one before has ended
NextOverlap ==
    \/ \E u \in SchedOwners, k \in OneKeyword, c \in Crons : AddScheduler(u, k, c, OneSched)
    \/ \E i \in OneSched : TickOverlapping(i)
    \/ \E e \in AllExecIds, t \in BOOLEAN : Attempt(e, t)
    \/ \E e \in AllExecIds : Retry(e)
    \/ \E e \in AllExecIds : Timeout(e)
    \/ \E e \in AllExecIds, code \in {"code0", "code1"} : SchedClose(e, code)

SpecOverlap == Init /\ [][NextOverlap]_vars

\* SpecOwner: the scheduler routes with request bodies that name any field of
\* the record, two users
NextOwner ==
    \/ \E u \in Users, k \in OneKeyword, c \in Crons : AddScheduler(u, k, c, SchedIds)
    \/ \E u \in Users, i \in SchedIds, up \in OwnerUpdates \cup {[isActive |-> FALSE]} :
          UpdateScheduler(u, i, up)
    \/ \E u \in Users, i \in SchedIds : DeleteScheduler(u, i)

SpecOwner == Init /\ [][NextOwner]_vars

\* SpecAdmin: the scheduler routes alone at one instant, two users, two
\* keywords, two records
NextAdmin ==
    \/ \E u \in Users, k \in Keywords, c \in Crons \cup InvalidCrons :
          AddScheduler(u, k, c, SchedIds)
    \/ \E u \in Users, i \in SchedIds, up \in SchedUpdates \cup KeywordUpdates :
          UpdateScheduler(u, i, up)
    \/ \E u \in Users, i \in SchedIds : DeleteScheduler(u, i)

SpecAdmin == Init /\ [][NextAdmin]_vars

\* SpecAdd: schedules are added, paused and added again while time passes
NextAdd ==
    \/ \E u \in Users, k \in OneKeyword, c \in Crons : AddScheduler(u, k, c, SchedIds)
    \/ \E u \in Users, i \in SchedIds : UpdateScheduler(u, i, [isActive |-> FALSE])
    \/ Advance

SpecAdd == Init /\ [][NextAdd]_vars

\* SpecStart: schedules are added and updated, also to expressions that
\* cron.validate rejects, and the server process is started anew
NextStart ==
    \/ \E u \in SchedOwners, k \in Keywords, c \in Crons : AddScheduler(u, k, c, SchedIds)
    \/ \E u \in SchedOwners, i \in SchedIds, up \in SchedUpdates \cup InvalidCronUpdates :
          UpdateScheduler(u, i, up)
    \/ Start

SpecStart == Init /\ [][NextStart]_vars

\* SpecTimeout: executions of one schedule with the worker's own status write
\* and the execution timer
NextTimeout ==
    \/ \E u \in SchedOwners, k \in OneKeyword, c \in Crons : AddScheduler(u, k, c, OneSched)
    \/ \E i \in OneSched : Tick(i)
    \/ \E e \in ExecIds, t \in BOOLEAN : Attempt(e, t)
    \/ \E e \in ExecIds : Retry(e)
    \/ \E e \in ExecIds, st \in {"completed", "failed"} : SchedWorkerWrite(e, st)
    \/ \E e \in ExecIds : Timeout(e)
    \/ \E e \in ExecIds, code \in {"code0", "code1"} : SchedClose(e, code)

SpecTimeout == Init /\ [][NextTimeout]_vars

\* SpecLoop: one worker from its start to its exit, with every page state the
\* extraction loop can meet
LoopStepOn(m, counts) ==
    \/ LoopLeave(m)
    \/ EmptyPoll(m) /\ UNCHANGED runs
    \/ \E count \in counts, scrollWorked \in BOOLEAN :
          ScrollForMore(m, count, scrollWorked) /\ UNCHANGED runs
    \/ \E count \in counts :
          \E extracted \in Extracted(batchProcessingSize) :
             ProcessBatch(m, count, extracted) /\ UNCHANGED runs

LoopStep(m) == LoopStepOn(m, CardCounts)

NextLoop ==
    \/ \E u \in SchedOwners : StartScrape(u, OneMission)
    \/ \E m \in OneMission, ok \in BOOLEAN : NavigateFirst(m, ok)
    \/ \E m \in OneMission, ok \in BOOLEAN : NavigateDegraded(m, ok)
    \/ \E m \in OneMission, a \in MaxAdsArgs, d \in DailyLimitArgs : LoopEnter(m, a, d)
    \/ \E m \in OneMission : LoopStep(m)
    \/ \E m \in OneMission : LoopComplete(m)
    \/ \E m \in OneMission : LoopError(m)
    \/ \E m \in OneMission : OtherSave(m)
    \/ \E m \in OneMission : WorkerExit(m)

SpecLoop == Init /\ [][NextLoop]_vars

\* the event loop runs the pending continuation of the loop
LoopFairness == \A m \in OneMission : WF_vars(LoopStep(m))

SpecLoopFair == SpecLoop /\ LoopFairness

\* SpecStall: the worker of SpecLoop with the history of its polls and scrolls
\* kept; scrollWorked is what the call of scrollForMoreContent of the
\* iteration returned, read by the loop at line 419 only
LoopStepTracked(m) ==
    \/ LoopLeave(m)
    \/ \E scrollWorked \in BOOLEAN : EmptyPoll(m) /\ Tracked(m, 0, scrollWorked)
    \/ \E count \in CardCounts, scrollWorked \in BOOLEAN :
          ScrollForMore(m, count, scrollWorked) /\ Tracked(m, count, scrollWorked)
    \/ \E count \in CardCounts, scrollWorked \in BOOLEAN :
          \E extracted \in Extracted(batchProcessingSize) :
             ProcessBatch(m, count, extracted) /\ Tracked(m, count, scrollWorked)

NextStall ==
    \/ \E u \in SchedOwners : StartScrape(u, OneMission)
    \/ \E m \in OneMission, ok \in BOOLEAN : NavigateFirst(m, ok)
    \/ \E m \in OneMission, a \in MaxAdsArgs, d \in DailyLimitArgs : LoopEnter(m, a, d)
    \/ \E m \in OneMission : LoopStepTracked(m)
    \/ \E m \in OneMission : LoopComplete(m)
    \/ \E m \in OneMission : WorkerExit(m)

SpecStall == Init /\ [][NextStall]_vars

\* SpecQuota: one worker with a large --max-ads on a long page, and the other
\* missions of its owner
NextQuota ==
    \/ \E u \in SchedOwners : StartScrape(u, OneMission)
    \/ \E m \in OneMission : NavigateFirst(m, TRUE)
    \/ \E m \in OneMission, a \in LargeMaxAdsArgs, d \in DailyLimitArgs : LoopEnter(m, a, d)
    \/ \E m \in OneMission : LoopStepOn(m, LongPageCounts)
    \/ \E m \in OneMission : LoopComplete(m)
    \/ \E m \in OneMission : OtherSave(m)

SpecQuota == Init /\ [][NextQuota]_vars

\* SpecChunk: the output of one worker, delivered to the parent in chunks of
\* every size
NextChunk ==
    \/ \E u \in SchedOwners : StartScrape(u, OneMission)
    \/ \E m \in OneMission, c \in OutChars : WriteOut(m, c)
    \/ \E m \in OneMission, k \in 1..MaxStream : StdoutChunk(m, k)

SpecChunk == Init /\ [][NextChunk]_vars

\* SpecStamp: a Facebook mission and a Google Ads mission of one user while
\* time passes
NextStamp ==
    \/ \E u \in SchedOwners : StartScrape(u, OneMission)
    \/ \E m \in MissionIds : NavigateFirst(m, TRUE)
    \/ \E m \in MissionIds, c \in AdContents : SaveAdFind(m, c)
    \/ \E m \in MissionIds : SaveAdStore(m)
    \/ \E m \in MissionIds : WorkerComplete(m)
    \/ \E m \in MissionIds : WorkerExit(m)
    \/ \E m \in MissionIds : StdoutData(m)
    \/ \E m \in MissionIds : Close(m)
    \/ \E u \in SchedOwners : StartGoogle(u, MissionIds)
    \/ \E m \in MissionIds, ok \in BOOLEAN, n \in 0..MaxAds : GoogleFinish(m, ok, n)
    \/ \E u \in SchedOwners, m \in MissionIds : GoogleStopById(u, m)
    \/ Advance

SpecStamp == Init /\ [][NextStamp]_vars

\* SpecCards: the card finder on every page of Pages
NextCards == \E page \in Pages : PollCards(page)

SpecCards == Init /\ [][NextCards]_vars

\* SpecLists: the card finder on pages where only the sibling strategy can
\* find anything: one div of two to five children of every kind
ChildNames == <<"d1", "d2", "d3", "d4", "d5">>
ChildKinds == {[hasLink |-> TRUE, long |-> TRUE, tall |-> TRUE],
               [hasLink |-> TRUE, long |-> TRUE, tall |-> FALSE],
               [hasLink |-> FALSE, long |-> TRUE, tall |-> TRUE]}
SiblingLists ==
    UNION {{[i \in 1..n |-> Child(ChildNames[i], k[i].hasLink, k[i].long, k[i].tall)] :
              k \in [1..n -> ChildKinds]} : n \in 2..5}
ListPages == {[EmptyPage EXCEPT !.lists = <<d>>] : d \in SiblingLists}

NextLists == \E page \in ListPages : PollCards(page)

SpecLists == Init /\ [][NextLists]_vars

\* SpecScroll: scrollForMoreContent on every page history of ScrollObs
NextScroll ==
    \E prevH \in PrevHeights, prevCardCount \in PrevCounts, obs \in [1..ScrollChecks -> ScrollObs] :
        ScrollCall(prevH, prevCardCount, obs)

SpecScroll == Init /\ [][NextScroll]_vars

\* ------------------------------------------------------------------ claims
\* C1: once the persisted status of an on-demand Facebook mission is completed,
\* failed or stopped it never changes to another value.
C1_StatusWriteOnce ==
    [][\A m \in MissionIds :
          (missions[m].source = "facebook" /\ missions[m].status \in Terminal)
              => missions'[m].status = missions[m].status]_vars

C3_NoDuplicateKey == \A k \in AdKeys : ads[k] <= 1

\* C4: a stop request acts only on missions of the requester: whoever stopped
\* a mission (status write, worker termination, registry removal) owns it.
C4_StopOnlyOwnMissions ==
    \A m \in MissionIds :
        Stored(m) =>
            /\ stop[m].by \in {"none", missions[m].userId}
            /\ google[m].stoppedBy \in {"none", missions[m].userId}

\* C5: the status written by the worker-exit handler is completed for exit
\* code 0, stopped for termination by signal and failed for any other code.
C5_ExitDispositionStatus ==
    [][\A m \in MissionIds :
          (sup'[m].closeWrote /\ ~sup[m].closeWrote) =>
              /\ worker[m].exit = "code0" => missions'[m].status = "completed"
              /\ worker[m].exit = "signal" => missions'[m].status = "stopped"
              /\ worker[m].exit = "code1" => missions'[m].status = "failed"]_vars

C5_Witness ==
    \E m \in MissionIds :
        /\ sup[m].closeWrote
        /\ worker[m].exit = "signal"
        /\ missions[m].status = "stopped"
        /\ stop[m].pc = "idle"

\* C6: a mission whose worker failed fatally never has the persisted status
\* completed.
C6_FatalNeverCompleted ==
    \A m \in MissionIds : worker[m].fatal => missions[m].status # "completed"

\* C7: after the worker-exit handler has run, the persisted newAds equals the
\* maximum of the number of NEW AD tags and the saved count of the summary.
C7_CounterIsMaxOfChannels ==
    \A m \in MissionIds :
        (sup[m].closeWrote /\ sup[m].scriptSummary # -1) =>
            missions[m].newAds = Max(worker[m].savedCount, sup[m].scriptSummary)

\* C8: no persisted counter of a mission ever decreases.
C8_CountersMonotone ==
    [][\A m \in MissionIds :
          (Stored(m) /\ missions'[m] # NoMission) =>
              /\ missions'[m].adsFound >= missions[m].adsFound
              /\ missions'[m].newAds >= missions[m].newAds
              /\ missions'[m].duplicatesSkipped >= missions[m].duplicatesSkipped
              /\ missions'[m].adsProcessed >= missions[m].adsProcessed]_vars


\* C9: every step in which a scheduled execution is recorded on a Scheduler
\* record (its totalRuns grows: worker closed with success or failure, or
\* retries exhausted) leaves that record with lastRun set and nextRun > lastRun.
C9_NextRunAfterLastRun ==
    [][\A i \in SchedIds :
          (schedulers[i] # NoScheduler /\ schedulers'[i] # NoScheduler
           /\ schedulers'[i].totalRuns > schedulers[i].totalRuns)
          => /\ schedulers'[i].lastRun = now
             /\ schedulers'[i].nextRun > schedulers'[i].lastRun]_vars

\* a daily schedule has recorded a failed run after midnight was crossed
C9_Witness ==
    \E i \in SchedIds :
        /\ schedulers[i].cronExpression = "0 0 * * *"
        /\ schedulers[i].failedRuns > 0
        /\ schedulers[i].lastRun = now
        /\ elapsed > 0
        /\ schedulers[i].nextRun > schedulers[i].lastRun

\* C10: a run is recorded as failed only by an execution that has used all its
\* retries: every execution that recorded a failed run has retryCount = MaxRetries.
C10_FailedOnlyAfterRetries ==
    \A e \in ExecIds :
        execs[e].recorded \in {"failed", "exhausted"} => execs[e].retryCount = MaxRetries

\* C11: the runs recorded on a stored Scheduler record are exactly the finished
\* executions of its ticks that recorded a run, each counted once in totalRuns
\* and once in exactly one of successfulRuns and failedRuns; and every
\* execution whose worker was started eventually records its run.
RecordedRuns(i, kinds) ==
    Cardinality({e \in ExecIds : execs[e].sid = i /\ execs[e].phase = "ended"
                                 /\ execs[e].recorded \in kinds})

C12_StopOnTerminalIsNoOp ==
    [][\A m \in MissionIds :
          (stop[m].pc \in {"called", "written"} /\ stop'[m].pc # stop[m].pc
           /\ stop[m].seen \in {"completed", "failed"})
          => /\ missions'[m].status = missions[m].status
             /\ fbReg' = fbReg]_vars

\* C13: a step of a stop of mission m that is not also a stop of mission n (the
\* route accepting the request, the status write or the kill) leaves n's stored
\* document with its status and counters, n's registry entry, n's worker and
\* n's supervisor record unchanged.
C13_StopLeavesOtherMission ==
    [][\A m \in MissionIds, n \in MissionIds :
          (m # n /\ stop'[m] # stop[m] /\ stop'[n] = stop[n])
          => /\ missions'[n] = missions[n]
             /\ (n \in fbReg') = (n \in fbReg)
             /\ worker'[n] = worker[n]
             /\ sup'[n] = sup[n]]_vars

\* two missions of one owner were running, one has been stopped by id and the
\* other is still registered, running and unsignalled
C13_Witness ==
    \E m \in MissionIds, n \in MissionIds :
        /\ m # n
        /\ missions[m].source = "facebook" /\ missions[n].source = "facebook"
        /\ missions[m].userId = missions[n].userId
        /\ stop[m].pc = "killed" /\ missions[m].status = "stopped" /\ m \notin fbReg
        /\ stop[n].pc = "idle" /\ n \in fbReg /\ missions[n].status = "running"
        /\ Alive(n) /\ ~worker[n].signalled

\* C14: every mission of an owner whose worker is running, started on demand or
\* by a schedule tick, is in the activeMissions of that owner's Status.
C14_StatusListsActive ==
    \A u \in Users : ActiveMissions(u) \subseteq Status(u).activeMissions

\* C15: the Status of requester u lists only missions of u and its totals are
\* the sums over the registered missions of u alone.
OwnRegistered(u) == {m \in MissionIds : m \in fbReg /\ Stored(m) /\ missions[m].userId = u}

C15_StatusOnlyOwn ==
    \A u \in Users :
        /\ \A m \in MissionIds :
              DemandMission(m) \in Status(u).activeMissions => missions[m].userId = u
        /\ Status(u).adsFound = SumOf(OwnRegistered(u), "adsFound")
        /\ Status(u).newAds = SumOf(OwnRegistered(u), "newAds")

\* a registered mission of one user has counted an ad; the Status of the other
\* user is empty with zero totals
C15_Witness ==
    \E m \in MissionIds, u \in Users :
        /\ m \in fbReg /\ Stored(m) /\ missions[m].userId # u
        /\ missions[m].adsFound > 0 /\ missions[m].newAds > 0
        /\ Status(u).activeMissions = {} /\ Status(u).adsFound = 0 /\ Status(u).newAds = 0
        /\ Status(missions[m].userId).activeMissions = {DemandMission(m)}

\* C16: no two stored Scheduler records have the same owner and keyword.
C16_OneSchedulerPerOwnerKeyword ==
    \A i \in SchedIds, j \in SchedIds :
        (i # j /\ schedulers[i] # NoScheduler /\ schedulers[j] # NoScheduler)
        => <<schedulers[i].userId, schedulers[i].keyword>>
           # <<schedulers[j].userId, schedulers[j].keyword>>

\* C17: every accepted AddSchedule of owner u for keyword k leaves a record of
\* (u, k) that is active and whose nextRun is set and later than the time of
\* the call.
C17_AddScheduleSetsNextRun ==
    [][\A u \in Users, k \in Keywords, c \in Crons :
          AddScheduler(u, k, c, SchedIds)
          => \E i \in SchedIds :
                /\ schedulers'[i] # NoScheduler
                /\ schedulers'[i].userId = u /\ schedulers'[i].keyword = k
                /\ schedulers'[i].cronExpression = c
                /\ schedulers'[i].isActive
                /\ schedulers'[i].nextRun # NoDate
                /\ schedulers'[i].nextRun > now]_vars

\* a schedule added after the clock has advanced, before any tick: active, with
\* the nextRun of the current instant
C17_Witness ==
    \E i \in SchedIds :
        /\ sret = "done" /\ nTicks = 0 /\ elapsed > 0
        /\ schedulers[i] # NoScheduler /\ schedulers[i].isActive
        /\ schedulers[i].lastRun = NoDate
        /\ schedulers[i].nextRun = GetNextRunTime(schedulers[i].cronExpression, now)
        /\ schedulers[i].nextRun > now
        /\ i \in jobs

\* C18: a schedule-creation request with an invalid cron expression creates and
\* modifies no Scheduler record, and installs and replaces no cron job.
C18_InvalidCronNoEffect ==
    [][\A u \in Users, k \in Keywords, c \in InvalidCrons :
          AddScheduler(u, k, c, SchedIds)
          => /\ sret' = "invalid"
             /\ UNCHANGED <<schedulers, nextSid, jobs>>]_vars

\* an invalid creation request was refused while one record and its job exist
\* and a second record could still have been created
C18_Witness ==
    /\ sret = "invalid"
    /\ nextSid = 1
    /\ schedulers[1] # NoScheduler /\ schedulers[1].cronExpression \in Crons
    /\ jobs = {1}

\* C19: a Pause by the owner leaves the schedule without a live cron job and
\* its record stored with isActive = false; a Remove by the owner leaves it
\* without a live cron job and without a record.
C19_PauseAndRemove ==
    [][\A u \in Users, i \in SchedIds :
          /\ (OwnsScheduler(u, i) /\ UpdateScheduler(u, i, [isActive |-> FALSE]))
             => /\ i \notin jobs'
                /\ schedulers'[i] # NoScheduler
                /\ ~schedulers'[i].isActive
                /\ schedulers'[i] = [schedulers[i] EXCEPT !.isActive = FALSE]
          /\ (OwnsScheduler(u, i) /\ DeleteScheduler(u, i))
             => /\ i \notin jobs'
                /\ schedulers'[i] = NoScheduler]_vars

\* of two schedules created, one is paused and one removed, and no job is live
C19_Witness ==
    /\ nextSid = 2 /\ sret = "done"
    /\ \E i \in SchedIds, j \in SchedIds :
          /\ schedulers[i] # NoScheduler /\ ~schedulers[i].isActive
          /\ schedulers[j] = NoScheduler
    /\ jobs = {}

\* C20: an update, pause or remove of a stored Scheduler by a user other than
\* its owner changes no Scheduler record, no live cron job and no jobs entry.
C20_NonOwnerChangesNothing ==
    [][\A u \in Users, i \in SchedIds, up \in SchedUpdates \cup KeywordUpdates :
          (schedulers[i] # NoScheduler /\ schedulers[i].userId # u
           /\ (UpdateScheduler(u, i, up) \/ DeleteScheduler(u, i)))
          => /\ sret' = "refused"
             /\ UNCHANGED <<schedulers, nextSid, jobs>>]_vars

\* a request of another user was refused on an active schedule with a live job
C20_Witness ==
    /\ sret = "refused"
    /\ \E i \in SchedIds :
          /\ schedulers[i] # NoScheduler /\ schedulers[i].isActive /\ i \in jobs
          /\ \A j \in SchedIds : schedulers[j] # NoScheduler
                                 => schedulers[j].userId = schedulers[i].userId

\* C21: after start() every stored Scheduler record with isActive = true and
\* an expression that can be scheduled has a live cron job, whatever the other
\* records contain.
C21_StartArmsEveryActive ==
    [][Start => \A i \in SchedIds :
                    (schedulers'[i] # NoScheduler /\ schedulers'[i].isActive
                     /\ CronValid(schedulers'[i].cronExpression)) => i \in jobs']_vars

C23_StallIsCompleted ==
    \A m \in MissionIds :
        (loop[m].exit = "stall" /\ worker[m].pc \in {"done", "exited"})
        => /\ missions[m].status = "completed"
           /\ missions[m].newAds = worker[m].savedCount
           /\ today >= worker[m].savedCount

\* the loop gave up after it had saved a record, and the result is written
C23_Witness ==
    \E m \in MissionIds :
        /\ loop[m].exit = "stall" /\ worker[m].pc = "done"
        /\ loop[m].pageRefreshCount = maxPageRefreshes
        /\ worker[m].savedCount >= 1
        /\ missions[m].status = "completed"

\* C24: in every state of the extraction loop savedCount <= maxAds.
C24_SavedWithinCap ==
    \A m \in MissionIds : loop[m].pc # "none" => worker[m].savedCount <= loop[m].maxAds

\* the loop was left at the cap after more than one batch
C24_Witness ==
    \E m \in MissionIds :
        /\ loop[m].exit = "cap"
        /\ loop[m].maxAds > batchProcessingSize
        /\ worker[m].savedCount = loop[m].maxAds

\* C25: the extraction loop always terminates: whatever the page shows, a loop
\* that was entered returns (or an error ends the worker).
C25_LoopTerminates ==
    \A m \in OneMission :
        (loop[m].pc = "head") ~> (loop[m].pc = "returned" \/ worker[m].pc # "run")

\* C26: once the owner's count of today has reached the daily limit, the
\* mission saves at most dailyLimitCheckInterval batches of batchProcessingSize
\* records before it stops.
C26_QuotaOvershootBounded ==
    \A m \in MissionIds :
        loop[m].pc # "none"
        => today <= loop[m].dailyLimit + dailyLimitCheckInterval * batchProcessingSize

\* C27: in a sequential run a save of a record whose (advertiser, description,
\* owner) is already stored returns false: no document is added, savedCount
\* stays, the card is counted as a duplicate and no NEW AD line is written.
C27_SecondSaveIsDuplicate ==
    [][\A m \in MissionIds :
          (/\ worker[m].pc = "saving" /\ worker'[m].pc = "run"
           /\ ads[AdKey(worker[m].content, worker[m].userId)] > 0)
          => /\ ads' = ads
             /\ worker'[m].savedCount = worker[m].savedCount
             /\ worker'[m].duplicateCount = worker[m].duplicateCount + 1
             /\ pipe'[m] = pipe[m]]_vars

\* the only worker saved a record and then was handed the same record again
C27_Witness ==
    \E m \in MissionIds :
        /\ worker[m].pc = "run"
        /\ worker[m].savedCount = 1 /\ worker[m].duplicateCount = 1
        /\ \E k \in AdKeys : ads[k] = 1 /\ \A j \in AdKeys \ {k} : ads[j] = 0

\* C28: progress parsing does not depend on chunk boundaries: after any
\* sequence of chunks the increments applied to the mission are those of the
\* complete lines of everything read so far, and the unfinished last line is
\* what the buffer holds.
C28_ChunkingIndependent ==
    \A m \in MissionIds :
        m \in fbReg
        => LET whole == SplitLines(scriptOutput[m], <<>>, <<>>)
           IN /\ missions[m].newAds = CountTagged(whole.lines)
              /\ missions[m].adsFound = CountTagged(whole.lines)
              /\ stdoutBuffer[m] = whole.rest

\* a tagged line was counted, and a chunk ended inside the next tagged line,
\* which is buffered and not counted
C28_Witness ==
    \E m \in MissionIds :
        /\ m \in fbReg
        /\ missions[m].newAds = 1
        /\ Includes(stdoutBuffer[m], NewAdTag)

\* C29: every mutation of a Mission record sets updatedAt to the time of that
\* mutation: a step that changes a stored mission leaves its updatedAt at the
\* current time.
C29_WritesStampUpdatedAt ==
    [][\A m \in MissionIds :
          (Stored(m) /\ missions'[m] # missions[m]) => missions'[m].updatedAt = now']_vars

\* C30: record-container discovery is an ordered fallback chain: a poll returns
\* the output of the first of the four strategies (marker attribute, detail-link
\* ancestors, scoped class names, sibling homogeneity) that is not empty; with
\* no marker and a detail-link container it returns exactly the deduplicated
\* containers, whatever the later strategies would find.
C30_FirstNonEmptyStrategy ==
    found.polled
    => LET p == found.page
           s == <<MarkerCards(p), DetailContainers(p.links, <<>>), ClassCards(p),
                  ResultsList(p.lists)>>
       IN /\ \/ \E i \in 1..4 : /\ s[i] # <<>>
                                 /\ \A j \in 1..(i - 1) : s[j] = <<>>
                                 /\ found.cards = s[i]
             \/ /\ \A i \in 1..4 : s[i] = <<>>
                /\ found.cards = <<>>
          /\ (p.testId = <<>> /\ s[2] # <<>>)
             => /\ found.cards = s[2]
                /\ \A i, j \in 1..Len(found.cards) :
                      found.cards[i] = found.cards[j] => i = j

\* no marker, two detail links in the same container, and both later
\* strategies would have found cards: the poll returns the one container
C30_Witness ==
    /\ found.polled
    /\ found.page.testId = <<>>
    /\ Len(found.page.links) = 2
    /\ ClassCards(found.page) # <<>>
    /\ ResultsList(found.page.lists) # <<>>
    /\ found.cards = <<"c1">>

\* C31: in the sibling-homogeneity strategy a parent with 3 to 200 children is
\* accepted as the record container whenever at least 3 children are card-like
\* and the card-like children are at least 60% of all children, exactly 60%
\* included: when no earlier strategy finds a card, a poll of a page whose
\* first div is such a parent returns that div's children with a link and text.
C31_SixtyPercentAccepted ==
    (/\ found.polled
     /\ MarkerCards(found.page) = <<>>
     /\ DetailContainers(found.page.links, <<>>) = <<>>
     /\ ClassCards(found.page) = <<>>
     /\ found.page.lists # <<>>)
    => LET div == found.page.lists[1]
           n == Len(SelectSeq(div, CardLike))
       IN (Len(div) >= 3 /\ Len(div) <= 200 /\ n >= 3 /\ 10 * n >= 6 * Len(div))
          => found.cards = ElsOf(SelectSeq(div, LinkAndText))

\* C32: scrollForMoreContent reports new content whenever either the page
\* height or the record count has grown relative to the values before the
\* scroll, at any of its check stages (the poll, the re-check after the jiggle,
\* the re-check after the full reset), and reports a stall only if neither
\* grew at any stage.
C32_GrowthAtAnyStage ==
    scroll.called
    => (scroll.result
        <=> \E i \in 1..Len(scroll.obs) :
               \/ scroll.obs[i].h > scroll.prevH
               \/ scroll.obs[i].cards > scroll.prevCardCount)

\* C33: within one mission the stall-triggered page reloads, those after empty
\* polls and those after failed scrolls counted together, never exceed
\* maxPageRefreshes, and a reload is triggered only after maxEmptyBatchPatience
\* consecutive empty polls or maxScrollFails consecutive failed scrolls.
C33_ReloadsBoundedAndEarned ==
    [][\A m \in MissionIds :
          /\ loop'[m].pageRefreshCount <= maxPageRefreshes
          /\ loop'[m].pageRefreshCount > loop[m].pageRefreshCount
             => \/ runs'[m].emptyRun >= maxEmptyBatchPatience
                \/ runs'[m].failRun >= maxScrollFails]_vars

\* C34: for an on-demand mission the persisted newAds never exceeds the number
\* of records its worker saved (the NEW AD lines it wrote), however the
\* parent's per-line increments and the worker's own final write interleave.
C34_NewAdsWithinSaved ==
    \A m \in MissionIds :
        (Stored(m) /\ missions[m].source = "facebook")
        => missions[m].newAds <= worker[m].savedCount

C36_NoMissionWhilePaused ==
    [][\A e \in ExecIds :
          (execs[e].mission = "none" /\ execs'[e].mission = "running")
          => /\ schedulers[execs[e].sid] # NoScheduler
             /\ schedulers[execs[e].sid].isActive]_vars

\* C37: after any sequence of add, update, pause, remove and start operations
\* the jobs registry holds a cron job for an id only if a Scheduler record
\* with that id exists and has isActive = true.
C37_JobsOnlyForActive ==
    \A i \in jobs : schedulers[i] # NoScheduler /\ schedulers[i].isActive

\* C38: a schedule never has two of its own missions running at the same
\* time: no two executions of one schedule have a running worker at once.
C38_OneWorkerPerSchedule ==
    \A e1, e2 \in AllExecIds :
        (/\ e1 # e2
         /\ execs[e1].phase = "running"
         /\ execs[e2].phase = "running")
        => execs[e1].sid # execs[e2].sid

\* C39: the owner of a Scheduler record never changes: whatever fields the
\* body of an update request holds, a record that stays stored keeps its
\* userId.
C39_OwnerNeverChanges ==
    [][\A i \in SchedIds :
          (schedulers[i] # NoScheduler /\ schedulers'[i] # NoScheduler)
          => schedulers'[i].userId = schedulers[i].userId]_vars

====
